---------------------------- MODULE Spec2Model ----------------------------
(***************************************************************************)
(* A model of the todo REST service: the todo store and the request        *)
(* handlers of its implementations.                                        *)
(*                                                                         *)
(*   "mem"    the in-memory TodoController   (unnamed/part_004, 1-354)     *)
(*   "sql"    the SQL-backed TodoController  (unnamed/part_004, 355-789)   *)
(*   "route"  the SQL route handlers         (src/routes/todoRoutes.js)    *)
(*   "model"  the TodoModel repository       (src/models/todoModel.js)     *)
(*   "mock"   the mock router with its own   (src/models/todoModel.js,     *)
(*            in-memory array                 254-406)                     *)
(*                                                                         *)
(* One behaviour runs one implementation (impl never changes).  Every      *)
(* request is handled in one step: a handler is a function from the store  *)
(* and the request to the new store and the response.                      *)
(*                                                                         *)
(* Representation.  A string that the code inspects character by           *)
(* character (title, description, search term) is a sequence of one-       *)
(* character strings.  An optional value is a sequence of length 0         *)
(* (absent: JavaScript undefined, a missing key) or 1.  A timestamp is a   *)
(* number of clock units; NULL stands for JavaScript null and SQL NULL in  *)
(* a timestamp position.  A description that is SQL NULL is None.          *)
(***************************************************************************)
EXTENDS Integers, Sequences, FiniteSets, TLC

VARIABLES
  impl,     \* which implementation this behaviour runs
  todos,    \* the stored todos: the `todos` array, or the rows of table todos
  nextId,   \* the id the next created todo gets: `nextId`, or the SERIAL sequence
  now,      \* the clock: Date.now() / CURRENT_TIMESTAMP
  resp,     \* the request handled by the latest step and its response
  proc,     \* the server process: where startServer is, what it received
  limiter,  \* the middleware of createUserRateLimit: its Map and its latest answer
  flight,   \* the requests whose handler awaits a query between two of its queries
  tester    \* the DeploymentTester of scripts/test-deployment.js and its run

\* what a handler that answers in one step and the server process leave alone
aside == <<limiter, flight, tester>>

vars == <<impl, todos, nextId, now, resp, proc, aside>>

---------------------------------------------------------------------------
(* Bounds of the model *)

\* ids are handed out up to MaxId, so at most MaxId todos are ever created
MaxId == 3
\* the same, in the behaviours that update todos field by field and in those
\* that count them
MaxUpdateId == 2
\* the clock stops advancing at MaxTime
MaxTime == 1

---------------------------------------------------------------------------
(* Values *)

NULL == -1

None == << >>
Some(v) == << v >>
IsSome(o) == Len(o) = 1
Get(o) == o[1]

Impls == {"mem", "sql", "route", "model", "mock"}

validPriorities == {"low", "medium", "high"}
DefaultPriority == "medium"

DefaultLimit == 10
DefaultPage == 1
DocMaxLimit == 100
MaxTitleLen == 255
MaxDescriptionLen == 1000
SevenDays == 604800000

Min(a, b) == IF a <= b THEN a ELSE b

---------------------------------------------------------------------------
(* Strings *)

\* the characters of the model's strings: two letters in both cases, the
\* blank that trim() removes and the two wildcards of a LIKE pattern
toLowerChar(c) == IF c = "A" THEN "a" ELSE IF c = "B" THEN "b" ELSE c

toLowerCase(s) == [i \in 1..Len(s) |-> toLowerChar(s[i])]

\* String.prototype.includes: q occurs in s as a contiguous substring
includes(s, q) ==
  \E i \in 0..(Len(s) - Len(q)) : SubSeq(s, i + 1, i + Len(q)) = q

RECURSIVE trimStart(_)
trimStart(s) ==
  IF s # << >> /\ Head(s) = " " THEN trimStart(Tail(s)) ELSE s

RECURSIVE trimEnd(_)
trimEnd(s) ==
  IF s # << >> /\ s[Len(s)] = " " THEN trimEnd(SubSeq(s, 1, Len(s) - 1)) ELSE s

\* String.prototype.trim
trim(s) == trimEnd(trimStart(s))

\* PostgreSQL `s ILIKE p`: in the pattern % matches any sequence of
\* characters and _ any one character; letters match regardless of case
RECURSIVE ILIKE(_, _)
ILIKE(s, p) ==
  IF p = << >> THEN s = << >>
  ELSE IF Head(p) = "%"
       THEN ILIKE(s, Tail(p)) \/ (s # << >> /\ ILIKE(Tail(s), p))
  ELSE IF s = << >> THEN FALSE
  ELSE /\ (Head(p) = "_" \/ toLowerChar(Head(p)) = toLowerChar(Head(s)))
       /\ ILIKE(Tail(s), Tail(p))

---------------------------------------------------------------------------
(* Ids as the request carries them: req.params.id is a text *)

Digits == <<"0", "1", "2", "3", "4", "5", "6", "7", "8", "9">>

isDigit(c) == \E n \in 1..10 : Digits[n] = c

digitValue(c) == (CHOOSE n \in 1..10 : Digits[n] = c) - 1

\* `${id}`: the decimal text of a number
RECURSIVE String(_)
String(n) ==
  IF n < 10 THEN << Digits[n + 1] >>
  ELSE String(n \div 10) \o << Digits[(n % 10) + 1] >>

\* the longest prefix of s made of digits
RECURSIVE leadingDigits(_)
leadingDigits(s) ==
  IF s = << >> \/ ~isDigit(Head(s)) THEN << >>
  ELSE << Head(s) >> \o leadingDigits(Tail(s))

RECURSIVE numberOf(_)
numberOf(ds) ==
  IF ds = << >> THEN 0
  ELSE numberOf(SubSeq(ds, 1, Len(ds) - 1)) * 10 + digitValue(ds[Len(ds)])

\* parseInt(s): the number the leading digits of s write; None stands for
\* NaN, which parseInt yields when s does not start with a digit
parseInt(s) ==
  IF leadingDigits(s) = << >> THEN None ELSE Some(numberOf(leadingDigits(s)))

\* the text is accepted as the value of an integer parameter ($1 compared
\* with the column id): it is a decimal number and nothing else
IntegerInput(s) == s # << >> /\ \A k \in 1..Len(s) : isDigit(s[k])

---------------------------------------------------------------------------
(* The store *)

\* position of the todo with this id, 0 when there is none (findIndex, -1)
findIndex(ts, id) ==
  IF \E i \in 1..Len(ts) : ts[i].id = id
  THEN CHOOSE i \in 1..Len(ts) : ts[i].id = id /\ \A j \in 1..(i - 1) : ts[j].id # id
  ELSE 0

Stored(ts, id) == findIndex(ts, id) # 0

Find(ts, id) == ts[findIndex(ts, id)]

RemoveAt(ts, i) == SubSeq(ts, 1, i - 1) \o SubSeq(ts, i + 1, Len(ts))

\* Array.prototype.slice(offset, offset + limit), and LIMIT limit OFFSET offset
slice(ts, offset, limit) == SubSeq(ts, offset + 1, Min(offset + limit, Len(ts)))

\* the orders in which `ORDER BY created_at DESC` may return the rows: every
\* arrangement with created_at non-increasing (rows with equal created_at
\* come in an order the store chooses)
OrderByCreatedAtDesc(ts) ==
  LET n == Len(ts)
      perms == {p \in [1..n -> 1..n] : \A i, j \in 1..n : i # j => p[i] # p[j]}
  IN {[i \in 1..n |-> ts[p[i]]] : p \in {p \in perms :
        \A i \in 1..(n - 1) : ts[p[i]].created_at >= ts[p[i + 1]].created_at}}

\* a request body: every key the handlers read, each absent or present
NoBody ==
  [title |-> None, description |-> None, completed |-> None,
   priority |-> None, dueDate |-> None, due_date |-> None]

\* the query string of GET / and of GET /search; offset is the option that
\* TodoModel.getAll and TodoModel.search take in place of page
NoQuery ==
  [page |-> None, limit |-> None, offset |-> None, status |-> None,
   priority |-> None, q |-> None]

NoStats == [total |-> 0, completed |-> 0, pending |-> 0, overdue |-> 0,
            high |-> 0, medium |-> 0, low |-> 0]

\* a response, together with the request it answers.  names is the id that
\* the message quotes (`Todo with ID ${id} does not exist`), empty when the
\* message quotes none.  param is the text of req.params.id in a GET /:id.
\* seen holds the rows the handler's SELECT returned before its UPDATE, when
\* the two were not one step.  sql holds the statements of a list request:
\* the SELECT of the page, then the SELECT COUNT(*).  status is the HTTP
\* status; for the TodoModel repository, which is called and not requested,
\* 200 stands for a returned value, 404 for a returned null or false and 500
\* for a thrown Error.  data holds the returned todos (one for a single todo).
R(op) ==
  [op |-> op, id |-> 0, param |-> << >>, body |-> NoBody, query |-> NoQuery,
   seen |-> << >>, sql |-> << >>, status |-> 200,
   error |-> "", message |-> "", names |-> << >>, data |-> << >>,
   page |-> 0, limit |-> 0, total |-> 0, results |-> 0, stats |-> NoStats]

NoResp == R("none")

NotFound(op, id, body) ==
  [R(op) EXCEPT !.id = id, !.body = body, !.status = 404, !.error = "Todo not found",
                !.message = "Todo with ID ${id} does not exist",
                !.names = String(id)]

Rejected(op, id, body, error, message) ==
  [R(op) EXCEPT !.id = id, !.body = body, !.status = 400,
                !.error = error, !.message = message]

Failed(op, id, body, error) ==
  [R(op) EXCEPT !.id = id, !.body = body, !.status = 500, !.error = error]

Ok(op, id, body, status, row) ==
  [R(op) EXCEPT !.id = id, !.body = body, !.status = status, !.data = << row >>]

\* what a handler yields: the store after it, and the response
Outcome(ts, nid, r) == [todos |-> ts, nextId |-> nid, resp |-> r]

---------------------------------------------------------------------------
(* Validation (Joi).  A schema yields the message of the first violated   *)
(* rule, "" when the body is valid.  Keys are checked in schema order,    *)
(* then the keys the schema does not know.                                 *)

StringRule(o, key, min, max) ==
  IF ~IsSome(o) THEN ""
  ELSE IF Len(Get(o)) = 0 /\ min > 0 THEN key
  ELSE IF Len(Get(o)) < min THEN key
  ELSE IF Len(Get(o)) > max THEN key
  ELSE ""

FirstOf(msgs) ==
  IF \E i \in 1..Len(msgs) : msgs[i] # ""
  THEN msgs[CHOOSE i \in 1..Len(msgs) : msgs[i] # "" /\ \A j \in 1..(i - 1) : msgs[j] = ""]
  ELSE ""

\* a create schema without the upper bound on the title's length
createTodoSchema_AnyLength(body) ==
  FirstOf(<< IF ~IsSome(body.title) THEN "title" ELSE "",
             IF IsSome(body.title) /\ Len(Get(body.title)) < 1 THEN "title" ELSE "",
             StringRule(body.description, "description", 0, MaxDescriptionLen),
             IF IsSome(body.priority) /\ Get(body.priority) \notin validPriorities
               THEN "priority" ELSE "",
             IF IsSome(body.completed) THEN "completed" ELSE "",
             IF IsSome(body.due_date) THEN "due_date" ELSE "" >>)

createTodoSchema(body) ==
  FirstOf(<< IF ~IsSome(body.title) THEN "title" ELSE "",
             StringRule(body.title, "title", 1, MaxTitleLen),
             StringRule(body.description, "description", 0, MaxDescriptionLen),
             IF IsSome(body.priority) /\ Get(body.priority) \notin validPriorities
               THEN "priority" ELSE "",
             IF IsSome(body.completed) THEN "completed" ELSE "",
             IF IsSome(body.due_date) THEN "due_date" ELSE "" >>)

updateTodoSchema(body) ==
  FirstOf(<< StringRule(body.title, "title", 1, MaxTitleLen),
             StringRule(body.description, "description", 0, MaxDescriptionLen),
             IF IsSome(body.priority) /\ Get(body.priority) \notin validPriorities
               THEN "priority" ELSE "",
             IF IsSome(body.due_date) THEN "due_date" ELSE "" >>)

---------------------------------------------------------------------------
(* The table todos: the statements the SQL implementations issue.          *)
(* A statement yields ok (FALSE: the store rejects it with an error), the  *)
(* table after it and the rows it returns.                                 *)

StoreResult(ok, ts, nid, rows) == [ok |-> ok, todos |-> ts, nextId |-> nid, rows |-> rows]

\* INSERT INTO todos (title, description, priority, due_date)
\* VALUES ($1, $2, $3, $4) RETURNING ...
\* title is an optional string (absent: NULL), which the column refuses
\* (NOT NULL, VARCHAR(255)); priority must pass the CHECK constraint.  id is
\* the next value of the sequence, which a refused row consumes as well;
\* completed, created_at and updated_at take their defaults.
SqlInsert(ts, nid, title, description, priority, due_date, t) ==
  IF ~IsSome(title) \/ Len(Get(title)) > MaxTitleLen \/ priority \notin validPriorities
  THEN StoreResult(FALSE, ts, nid + 1, << >>)
  ELSE LET row == [id |-> nid, title |-> Get(title), description |-> description,
                   completed |-> FALSE, priority |-> priority, due_date |-> due_date,
                   created_at |-> t, updated_at |-> t, dueDate |-> None]
       IN StoreResult(TRUE, Append(ts, row), nid + 1, << row >>)

\* the trigger update_todos_updated_at, BEFORE UPDATE FOR EACH ROW
update_updated_at_column(row, t) == [row EXCEPT !.updated_at = t]

\* an UPDATE that writes completed = false when the SET list leaves it out
SqlUpdate_ResetsCompleted(ts, id, set, t) ==
  LET i == findIndex(ts, id)
      old == ts[i]
      new == [old EXCEPT
                !.title = IF IsSome(set.title) THEN Get(set.title) ELSE @,
                !.description = IF IsSome(set.description) THEN Get(set.description) ELSE @,
                !.completed = IF IsSome(set.completed) THEN Get(set.completed) ELSE FALSE,
                !.priority = IF IsSome(set.priority) THEN Get(set.priority) ELSE @,
                !.due_date = IF IsSome(set.due_date) THEN Get(set.due_date) ELSE @]
      row == update_updated_at_column(new, t)
  IN IF i = 0 THEN StoreResult(TRUE, ts, 0, << >>)
     ELSE IF new.priority \notin validPriorities \/ Len(new.title) > MaxTitleLen
     THEN StoreResult(FALSE, ts, 0, << >>)
     ELSE StoreResult(TRUE, [ts EXCEPT ![i] = row], 0, << row >>)

\* UPDATE todos SET <the columns present in set> WHERE id = $n RETURNING ...
\* set gives each column as absent or as its new value
SqlUpdate(ts, id, set, t) ==
  LET i == findIndex(ts, id)
      old == ts[i]
      new == [old EXCEPT
                !.title = IF IsSome(set.title) THEN Get(set.title) ELSE @,
                !.description = IF IsSome(set.description) THEN Get(set.description) ELSE @,
                !.completed = IF IsSome(set.completed) THEN Get(set.completed) ELSE @,
                !.priority = IF IsSome(set.priority) THEN Get(set.priority) ELSE @,
                !.due_date = IF IsSome(set.due_date) THEN Get(set.due_date) ELSE @]
      row == update_updated_at_column(new, t)
  IN IF i = 0 THEN StoreResult(TRUE, ts, 0, << >>)
     ELSE IF new.priority \notin validPriorities \/ Len(new.title) > MaxTitleLen
     THEN StoreResult(FALSE, ts, 0, << >>)
     ELSE StoreResult(TRUE, [ts EXCEPT ![i] = row], 0, << row >>)

NoSet == [title |-> None, description |-> None, completed |-> None,
          priority |-> None, due_date |-> None]

\* DELETE FROM todos WHERE id = $1 RETURNING ...
SqlDelete(ts, id) ==
  LET i == findIndex(ts, id)
  IN IF i = 0 THEN StoreResult(TRUE, ts, 0, << >>)
     ELSE StoreResult(TRUE, RemoveAt(ts, i), 0, << ts[i] >>)

\* SELECT ... FROM todos WHERE id = $1
SqlSelectById(ts, id) == IF Stored(ts, id) THEN << Find(ts, id) >> ELSE << >>

---------------------------------------------------------------------------
(* POST /: create *)

\* createTodo numbering the new todo by the length of the array
Mem_createTodo_CountsTodos(ts, nid, body, t) ==
  LET error == createTodoSchema(body)
      newTodo ==
        [id |-> Len(ts) + 1,
         title |-> Get(body.title),
         description |-> Some(IF IsSome(body.description) THEN Get(body.description)
                                                           ELSE << >>),
         completed |-> FALSE,
         priority |-> IF IsSome(body.priority) THEN Get(body.priority)
                                               ELSE DefaultPriority,
         due_date |-> IF IsSome(body.dueDate) THEN Get(body.dueDate) ELSE NULL,
         created_at |-> t,
         updated_at |-> t,
         dueDate |-> None]
  IN IF error # ""
     THEN Outcome(ts, nid, Rejected("create", 0, body, "Validation error", error))
     ELSE Outcome(Append(ts, newTodo), nid + 1, Ok("create", Len(ts) + 1, body, 201, newTodo))

Mem_createTodo(ts, nid, body, t) ==
  LET error == createTodoSchema(body)
      newTodo ==
        [id |-> nid,
         title |-> Get(body.title),
         description |-> Some(IF IsSome(body.description) THEN Get(body.description)
                                                           ELSE << >>),
         completed |-> FALSE,
         priority |-> IF IsSome(body.priority) THEN Get(body.priority)
                                               ELSE DefaultPriority,
         due_date |-> IF IsSome(body.dueDate) THEN Get(body.dueDate) ELSE NULL,
         created_at |-> t,
         updated_at |-> t,
         dueDate |-> None]
  IN IF error # ""
     THEN Outcome(ts, nid, Rejected("create", 0, body, "Validation error", error))
     ELSE Outcome(Append(ts, newTodo), nid + 1, Ok("create", nid, body, 201, newTodo))

Sql_createTodo(ts, nid, body, t) ==
  LET error == createTodoSchema(body)
      ins == SqlInsert(ts, nid, body.title, body.description,
                       IF IsSome(body.priority) THEN Get(body.priority)
                                                ELSE DefaultPriority,
                       IF IsSome(body.dueDate) THEN Get(body.dueDate) ELSE NULL, t)
  IN IF error # ""
     THEN Outcome(ts, nid, Rejected("create", 0, body, "Validation error", error))
     ELSE IF ~ins.ok
     THEN Outcome(ins.todos, ins.nextId, Failed("create", 0, body, "Failed to create todo"))
     ELSE Outcome(ins.todos, ins.nextId, Ok("create", nid, body, 201, ins.rows[1]))

\* `description?.trim() || null`
trimOrNull(o) ==
  IF IsSome(o) /\ trim(Get(o)) # << >> THEN Some(trim(Get(o))) ELSE None

\* `due_date || null`
dateOrNull(o) == IF IsSome(o) THEN Get(o) ELSE NULL

Route_post(ts, nid, body, t) ==
  LET priority == IF IsSome(body.priority) THEN Get(body.priority) ELSE DefaultPriority
      ins == SqlInsert(ts, nid, Some(trim(Get(body.title))), trimOrNull(body.description),
                       priority, dateOrNull(body.due_date), t)
  IN IF ~IsSome(body.title) \/ Get(body.title) = << >> \/ trim(Get(body.title)) = << >>
     THEN Outcome(ts, nid, Rejected("create", 0, body, "", "Title is required"))
     ELSE IF priority \notin validPriorities
     THEN Outcome(ts, nid, Rejected("create", 0, body, "",
                                    "Priority must be low, medium, or high"))
     ELSE IF ~ins.ok
     THEN Outcome(ins.todos, ins.nextId, Failed("create", 0, body, "Error creating todo"))
     ELSE Outcome(ins.todos, ins.nextId, Ok("create", nid, body, 201, ins.rows[1]))

\* a create whose default priority is low
Model_create_DefaultLow(ts, nid, todoData, t) ==
  LET ins == SqlInsert(ts, nid, todoData.title, todoData.description,
                       IF IsSome(todoData.priority) THEN Get(todoData.priority)
                                                    ELSE "low",
                       IF IsSome(todoData.dueDate) THEN Get(todoData.dueDate) ELSE NULL, t)
  IN IF ~ins.ok
     THEN Outcome(ins.todos, ins.nextId, Failed("create", 0, todoData, "Failed to create todo"))
     ELSE Outcome(ins.todos, ins.nextId, Ok("create", nid, todoData, 201, ins.rows[1]))

Model_create(ts, nid, todoData, t) ==
  LET ins == SqlInsert(ts, nid, todoData.title, todoData.description,
                       IF IsSome(todoData.priority) THEN Get(todoData.priority)
                                                    ELSE DefaultPriority,
                       IF IsSome(todoData.dueDate) THEN Get(todoData.dueDate) ELSE NULL, t)
  IN IF ~ins.ok
     THEN Outcome(ins.todos, ins.nextId, Failed("create", 0, todoData, "Failed to create todo"))
     ELSE Outcome(ins.todos, ins.nextId, Ok("create", nid, todoData, 201, ins.rows[1]))

\* the mock router's router.post: any title that is not falsy, any priority;
\* the todo gets no updated_at and no due_date (NULL stands for the missing
\* key)
Mock_post(ts, nid, body, t) ==
  LET newTodo ==
        [id |-> nid,
         title |-> Get(body.title),
         description |-> body.description,
         completed |-> FALSE,
         priority |-> IF IsSome(body.priority) THEN Get(body.priority)
                                               ELSE DefaultPriority,
         due_date |-> NULL,
         created_at |-> t,
         updated_at |-> NULL,
         dueDate |-> None]
  IN IF ~IsSome(body.title) \/ Get(body.title) = << >>
     THEN Outcome(ts, nid, Rejected("create", 0, body, "", "Title is required"))
     ELSE Outcome(Append(ts, newTodo), nid + 1, Ok("create", nid, body, 201, newTodo))

createTodo(im, ts, nid, body, t) ==
  CASE im = "mem" -> Mem_createTodo(ts, nid, body, t)
    [] im = "sql" -> Sql_createTodo(ts, nid, body, t)
    [] im = "route" -> Route_post(ts, nid, body, t)
    [] im = "model" -> Model_create(ts, nid, body, t)
    [] im = "mock" -> Mock_post(ts, nid, body, t)

---------------------------------------------------------------------------
(* GET /:id *)

\* id is the text of req.params.id.  In the response, id is the number the
\* text was read as (0 when it was read as none).
Mem_getTodoById(ts, id) ==
  LET n == parseInt(id)
  IN IF ~IsSome(n) \/ ~Stored(ts, Get(n))
     THEN Outcome(ts, 0, [NotFound("get", IF IsSome(n) THEN Get(n) ELSE 0, NoBody)
                            EXCEPT !.names = id])
     ELSE Outcome(ts, 0, Ok("get", Get(n), NoBody, 200, Find(ts, Get(n))))

\* a getTodoById whose 404 quotes no id
Sql_getTodoById_NoId(ts, id) ==
  LET rows == SqlSelectById(ts, numberOf(id))
  IN IF ~IntegerInput(id)
     THEN Outcome(ts, 0, Failed("get", 0, NoBody, "Failed to fetch todo"))
     ELSE IF Len(rows) = 0
     THEN Outcome(ts, 0, [R("get") EXCEPT !.id = numberOf(id), !.status = 404,
                                          !.error = "Todo not found",
                                          !.message = "Todo not found"])
     ELSE Outcome(ts, 0, Ok("get", numberOf(id), NoBody, 200, rows[1]))

\* the text goes to the store as the parameter $1; a text that is no integer
\* makes the query throw
Sql_getTodoById(ts, id) ==
  LET rows == SqlSelectById(ts, numberOf(id))
  IN IF ~IntegerInput(id)
     THEN Outcome(ts, 0, Failed("get", 0, NoBody, "Failed to fetch todo"))
     ELSE IF Len(rows) = 0
     THEN Outcome(ts, 0, [NotFound("get", numberOf(id), NoBody) EXCEPT !.names = id])
     ELSE Outcome(ts, 0, Ok("get", numberOf(id), NoBody, 200, rows[1]))

Route_getById(ts, id) ==
  LET n == parseInt(id)
      rows == SqlSelectById(ts, Get(n))
  IN IF ~IsSome(n)
     THEN Outcome(ts, 0, [R("get") EXCEPT !.status = 400, !.message = "Invalid todo ID"])
     ELSE IF Len(rows) = 0
     THEN Outcome(ts, 0, [R("get") EXCEPT !.id = Get(n), !.status = 404,
                                          !.message = "Todo not found"])
     ELSE Outcome(ts, 0, Ok("get", Get(n), NoBody, 200, rows[1]))

\* 500 stands for the Error('Failed to fetch todo') that getById throws
Model_getById(ts, id) ==
  LET rows == SqlSelectById(ts, numberOf(id))
  IN IF ~IntegerInput(id)
     THEN Outcome(ts, 0, Failed("get", 0, NoBody, "Failed to fetch todo"))
     ELSE IF Len(rows) = 0
     THEN Outcome(ts, 0, [R("get") EXCEPT !.id = numberOf(id), !.status = 404])
     ELSE Outcome(ts, 0, Ok("get", numberOf(id), NoBody, 200, rows[1]))

\* the mock router's router.get('/:id')
Mock_getById(ts, id) ==
  LET n == parseInt(id)
  IN IF ~IsSome(n) \/ ~Stored(ts, Get(n))
     THEN Outcome(ts, 0, [R("get") EXCEPT !.id = IF IsSome(n) THEN Get(n) ELSE 0,
                                          !.status = 404, !.message = "Todo not found"])
     ELSE Outcome(ts, 0, Ok("get", Get(n), NoBody, 200, Find(ts, Get(n))))

getTodoById(im, ts, id) ==
  CASE im = "mem" -> Mem_getTodoById(ts, id)
    [] im = "sql" -> Sql_getTodoById(ts, id)
    [] im = "route" -> Route_getById(ts, id)
    [] im = "model" -> Model_getById(ts, id)
    [] im = "mock" -> Mock_getById(ts, id)

---------------------------------------------------------------------------
(* PUT /:id: update *)

\* { ...todos[todoIndex], ...value, dueDate: ..., updated_at: ... }: the keys
\* of value replace the todo's keys of the same name, and the key dueDate
\* (not due_date) receives the submitted date, or else the todo's due_date
Mem_updatedTodo(todo, value, t) ==
  [todo EXCEPT
     !.title = IF IsSome(value.title) THEN Get(value.title) ELSE @,
     !.description = IF IsSome(value.description) THEN Some(Get(value.description)) ELSE @,
     !.completed = IF IsSome(value.completed) THEN Get(value.completed) ELSE @,
     !.priority = IF IsSome(value.priority) THEN Get(value.priority) ELSE @,
     !.dueDate = IF IsSome(value.dueDate) THEN Some(Get(value.dueDate))
                                          ELSE Some(todo.due_date),
     !.updated_at = t]

\* updateTodo looking the todo up before it validates the body
Mem_updateTodo_FindsFirst(ts, id, body, t) ==
  LET error == updateTodoSchema(body)
      todoIndex == findIndex(ts, id)
      updatedTodo == Mem_updatedTodo(ts[todoIndex], body, t)
  IN IF todoIndex = 0
     THEN Outcome(ts, 0, NotFound("update", id, body))
     ELSE IF error # ""
     THEN Outcome(ts, 0, Rejected("update", id, body, "Validation error", error))
     ELSE Outcome([ts EXCEPT ![todoIndex] = updatedTodo], 0,
                  Ok("update", id, body, 200, updatedTodo))

Mem_updateTodo(ts, id, body, t) ==
  LET error == updateTodoSchema(body)
      todoIndex == findIndex(ts, id)
      updatedTodo == Mem_updatedTodo(ts[todoIndex], body, t)
  IN IF error # ""
     THEN Outcome(ts, 0, Rejected("update", id, body, "Validation error", error))
     ELSE IF todoIndex = 0
     THEN Outcome(ts, 0, NotFound("update", id, body))
     ELSE Outcome([ts EXCEPT ![todoIndex] = updatedTodo], 0,
                  Ok("update", id, body, 200, updatedTodo))

\* the SET list both the SQL-backed controller and TodoModel.update build:
\* one column for every key present in the body
updates(value) ==
  [title |-> value.title,
   description |-> IF IsSome(value.description) THEN Some(value.description) ELSE None,
   completed |-> value.completed,
   priority |-> value.priority,
   due_date |-> value.dueDate]

Sql_updateTodo(ts, id, body, t) ==
  LET error == updateTodoSchema(body)
      result == SqlUpdate(ts, id, updates(body), t)
  IN IF error # ""
     THEN Outcome(ts, 0, Rejected("update", id, body, "Validation error", error))
     ELSE IF updates(body) = NoSet
     THEN Outcome(ts, 0, Rejected("update", id, body, "No fields to update",
                                  "At least one field must be provided for update"))
     ELSE IF ~result.ok
     THEN Outcome(ts, 0, Failed("update", id, body, "Failed to update todo"))
     ELSE IF Len(result.rows) = 0
     THEN Outcome(ts, 0, NotFound("update", id, body))
     ELSE Outcome(result.todos, 0, Ok("update", id, body, 200, result.rows[1]))

\* the SET list of router.put: title trimmed, description trimmed or NULL,
\* the date read from the key due_date; `updated_at = CURRENT_TIMESTAMP` is
\* appended after the emptiness test
updateFields(body) ==
  [title |-> IF IsSome(body.title) THEN Some(trim(Get(body.title))) ELSE None,
   description |-> IF IsSome(body.description) THEN Some(trimOrNull(body.description))
                                               ELSE None,
   completed |-> body.completed,
   priority |-> body.priority,
   due_date |-> IF IsSome(body.due_date) THEN Some(dateOrNull(body.due_date)) ELSE None]

\* router.put up to its UPDATE: the response when the handler returns there,
\* NoResp when it goes on to the UPDATE
Route_putCheck(ts, id, body) ==
  LET existingTodo == SqlSelectById(ts, id)
  IN IF Len(existingTodo) = 0
     THEN [R("update") EXCEPT !.id = id, !.body = body, !.status = 404,
                              !.message = "Todo not found"]
     ELSE IF IsSome(body.priority) /\ Get(body.priority) # ""
             /\ Get(body.priority) \notin validPriorities
     THEN Rejected("update", id, body, "", "Priority must be low, medium, or high")
     ELSE IF updateFields(body) = NoSet
     THEN Rejected("update", id, body, "", "No fields to update")
     ELSE NoResp

\* router.put from its UPDATE on: `data: result.rows[0]`, a row or undefined
Route_putUpdate(ts, id, body, t) ==
  LET result == SqlUpdate(ts, id, updateFields(body), t)
  IN IF ~result.ok
     THEN Outcome(ts, 0, Failed("update", id, body, "Error updating todo"))
     ELSE Outcome(result.todos, 0,
                  [R("update") EXCEPT !.id = id, !.body = body, !.data = result.rows])

\* router.put when no other request comes between its SELECT and its UPDATE
Route_put(ts, id, body, t) ==
  IF Route_putCheck(ts, id, body) # NoResp
  THEN Outcome(ts, 0, Route_putCheck(ts, id, body))
  ELSE Route_putUpdate(ts, id, body, t)

Model_update(ts, id, todoData, t) ==
  LET result == SqlUpdate(ts, id, updates(todoData), t)
  IN IF updates(todoData) = NoSet
     THEN Outcome(ts, 0, Failed("update", id, todoData, "No fields to update"))
     ELSE IF ~result.ok
     THEN Outcome(ts, 0, Failed("update", id, todoData, "Failed to update todo"))
     ELSE IF Len(result.rows) = 0
     THEN Outcome(ts, 0, [R("update") EXCEPT !.id = id, !.body = todoData, !.status = 404])
     ELSE Outcome(result.todos, 0, Ok("update", id, todoData, 200, result.rows[1]))

\* the mock router's router.put: the keys title, description, completed and
\* priority are copied as they come; updated_at is set
Mock_put(ts, id, body, t) ==
  LET todoIndex == findIndex(ts, id)
      todo == [ts[todoIndex] EXCEPT
                 !.title = IF IsSome(body.title) THEN Get(body.title) ELSE @,
                 !.description = IF IsSome(body.description) THEN body.description ELSE @,
                 !.completed = IF IsSome(body.completed) THEN Get(body.completed) ELSE @,
                 !.priority = IF IsSome(body.priority) THEN Get(body.priority) ELSE @,
                 !.updated_at = t]
  IN IF todoIndex = 0
     THEN Outcome(ts, 0, [R("update") EXCEPT !.id = id, !.body = body, !.status = 404,
                                             !.message = "Todo not found"])
     ELSE Outcome([ts EXCEPT ![todoIndex] = todo], 0, Ok("update", id, body, 200, todo))

updateTodo(im, ts, id, body, t) ==
  CASE im = "mem" -> Mem_updateTodo(ts, id, body, t)
    [] im = "sql" -> Sql_updateTodo(ts, id, body, t)
    [] im = "route" -> Route_put(ts, id, body, t)
    [] im = "model" -> Model_update(ts, id, body, t)
    [] im = "mock" -> Mock_put(ts, id, body, t)

---------------------------------------------------------------------------
(* DELETE /:id *)

\* a deleteTodo that answers 200 and removes nothing
Mem_deleteTodo_KeepsTodo(ts, id) ==
  LET todoIndex == findIndex(ts, id)
  IN IF todoIndex = 0 THEN Outcome(ts, 0, NotFound("delete", id, NoBody))
     ELSE Outcome(ts, 0, [R("delete") EXCEPT !.id = id])

Mem_deleteTodo(ts, id) ==
  LET todoIndex == findIndex(ts, id)
  IN IF todoIndex = 0 THEN Outcome(ts, 0, NotFound("delete", id, NoBody))
     ELSE Outcome(RemoveAt(ts, todoIndex), 0, [R("delete") EXCEPT !.id = id])

Sql_deleteTodo(ts, id) ==
  LET result == SqlDelete(ts, id)
  IN IF Len(result.rows) = 0 THEN Outcome(ts, 0, NotFound("delete", id, NoBody))
     ELSE Outcome(result.todos, 0, [R("delete") EXCEPT !.id = id])

Route_delete(ts, id) ==
  LET result == SqlDelete(ts, id)
  IN IF Len(result.rows) = 0
     THEN Outcome(ts, 0, [R("delete") EXCEPT !.id = id, !.status = 404,
                                             !.message = "Todo not found"])
     ELSE Outcome(result.todos, 0, Ok("delete", id, NoBody, 200, result.rows[1]))

Model_delete(ts, id) ==
  LET result == SqlDelete(ts, id)
  IN IF Len(result.rows) > 0 THEN Outcome(result.todos, 0, [R("delete") EXCEPT !.id = id])
     ELSE Outcome(ts, 0, [R("delete") EXCEPT !.id = id, !.status = 404])

\* the mock router's router.delete
Mock_delete(ts, id) ==
  LET todoIndex == findIndex(ts, id)
  IN IF todoIndex = 0
     THEN Outcome(ts, 0, [R("delete") EXCEPT !.id = id, !.status = 404,
                                             !.message = "Todo not found"])
     ELSE Outcome(RemoveAt(ts, todoIndex), 0, Ok("delete", id, NoBody, 200, ts[todoIndex]))

deleteTodo(im, ts, id) ==
  CASE im = "mem" -> Mem_deleteTodo(ts, id)
    [] im = "sql" -> Sql_deleteTodo(ts, id)
    [] im = "route" -> Route_delete(ts, id)
    [] im = "model" -> Model_delete(ts, id)
    [] im = "mock" -> Mock_delete(ts, id)

---------------------------------------------------------------------------
(* PATCH /:id/complete and PATCH /:id/uncomplete (the two controllers) *)

Mem_completeTodo(ts, id, t) ==
  LET todoIndex == findIndex(ts, id)
      todo == [ts[todoIndex] EXCEPT !.completed = TRUE, !.updated_at = t]
  IN IF todoIndex = 0 THEN Outcome(ts, 0, NotFound("complete", id, NoBody))
     ELSE Outcome([ts EXCEPT ![todoIndex] = todo], 0, Ok("complete", id, NoBody, 200, todo))

Mem_uncompleteTodo(ts, id, t) ==
  LET todoIndex == findIndex(ts, id)
      todo == [ts[todoIndex] EXCEPT !.completed = FALSE, !.updated_at = t]
  IN IF todoIndex = 0 THEN Outcome(ts, 0, NotFound("uncomplete", id, NoBody))
     ELSE Outcome([ts EXCEPT ![todoIndex] = todo], 0, Ok("uncomplete", id, NoBody, 200, todo))

\* UPDATE todos SET completed = true WHERE id = $1 RETURNING ...
Sql_completeTodo(ts, id, t) ==
  LET result == SqlUpdate(ts, id, [NoSet EXCEPT !.completed = Some(TRUE)], t)
  IN IF Len(result.rows) = 0 THEN Outcome(ts, 0, NotFound("complete", id, NoBody))
     ELSE Outcome(result.todos, 0, Ok("complete", id, NoBody, 200, result.rows[1]))

\* UPDATE todos SET completed = false WHERE id = $1 RETURNING ...
Sql_uncompleteTodo(ts, id, t) ==
  LET result == SqlUpdate(ts, id, [NoSet EXCEPT !.completed = Some(FALSE)], t)
  IN IF Len(result.rows) = 0 THEN Outcome(ts, 0, NotFound("uncomplete", id, NoBody))
     ELSE Outcome(result.todos, 0, Ok("uncomplete", id, NoBody, 200, result.rows[1]))

completeTodo(im, ts, id, t) ==
  IF im = "mem" THEN Mem_completeTodo(ts, id, t) ELSE Sql_completeTodo(ts, id, t)

uncompleteTodo(im, ts, id, t) ==
  IF im = "mem" THEN Mem_uncompleteTodo(ts, id, t) ELSE Sql_uncompleteTodo(ts, id, t)

---------------------------------------------------------------------------
(* GET /: list with filters and pagination *)

\* number of todos of ts that satisfy P
Count(ts, P(_)) == Cardinality({i \in 1..Len(ts) : P(ts[i])})

Mem_getAllTodos(ts, query) ==
  LET page == IF IsSome(query.page) THEN Get(query.page) ELSE DefaultPage
      limit == IF IsSome(query.limit) THEN Get(query.limit) ELSE DefaultLimit
      offset == (page - 1) * limit
      byStatus ==
        IF query.status = Some("completed") THEN SelectSeq(ts, LAMBDA todo : todo.completed)
        ELSE IF query.status = Some("pending")
        THEN SelectSeq(ts, LAMBDA todo : ~todo.completed)
        ELSE ts
      filteredTodos ==
        IF IsSome(query.priority)
        THEN SelectSeq(byStatus, LAMBDA todo : todo.priority = Get(query.priority))
        ELSE byStatus
      paginatedTodos == slice(filteredTodos, offset, limit)
  IN Outcome(ts, 0, [R("list") EXCEPT !.query = query, !.data = paginatedTodos,
                                      !.page = page, !.limit = limit,
                                      !.total = Len(filteredTodos)])

\* a JavaScript value in a parameter array
Bool(b) == [type |-> "boolean", boolean |-> b, string |-> "", number |-> 0]
Str(s) == [type |-> "string", boolean |-> FALSE, string |-> s, number |-> 0]
Num(n) == [type |-> "number", boolean |-> FALSE, string |-> "", number |-> n]

\* whereClause, params and paramCount as getAllTodos, TodoModel.getAll and
\* TodoModel.count build them: where lists the columns compared, each with
\* the number n of its placeholder $n.  completed is the value pushed for the
\* status filter, absent when the filter is; `if (priority)` skips '' as well.
whereClause(completed, priority) ==
  LET count1 == IF IsSome(completed) THEN 1 ELSE 0
      where1 == IF IsSome(completed)
                THEN << [column |-> "completed", placeholder |-> count1] >> ELSE << >>
      params1 == IF IsSome(completed) THEN << Bool(Get(completed)) >> ELSE << >>
      truthy == IsSome(priority) /\ Get(priority) # ""
      count2 == IF truthy THEN count1 + 1 ELSE count1
      where2 == IF truthy
                THEN Append(where1, [column |-> "priority", placeholder |-> count2])
                ELSE where1
      params2 == IF truthy THEN Append(params1, Str(Get(priority))) ELSE params1
  IN [where |-> where2, params |-> params2, paramCount |-> count2]

\* a list statement that pushes limit and offset before the filter values
listStatement_PaginationFirst(completed, priority, limit, offset) ==
  LET clause == whereClause(completed, priority)
  IN [text |-> "SELECT", where |-> clause.where,
      limit |-> clause.paramCount + 1, offset |-> clause.paramCount + 2,
      params |-> << Num(limit), Num(offset) >> \o clause.params]

\* SELECT ... FROM todos <whereClause> ORDER BY created_at DESC
\* LIMIT $(paramCount + 1) OFFSET $(paramCount + 2), after
\* `params.push(limit, offset)`
listStatement(completed, priority, limit, offset) ==
  LET clause == whereClause(completed, priority)
  IN [text |-> "SELECT", where |-> clause.where,
      limit |-> clause.paramCount + 1, offset |-> clause.paramCount + 2,
      params |-> clause.params \o << Num(limit), Num(offset) >>]

\* SELECT COUNT(*) as count FROM todos <whereClause> of getAllTodos, with
\* `params.slice(0, paramCount)` of the list statement's params
countStatement(completed, priority, params) ==
  LET clause == whereClause(completed, priority)
  IN [text |-> "SELECT COUNT", where |-> clause.where, limit |-> 0, offset |-> 0,
      params |-> SubSeq(params, 1, clause.paramCount)]

\* the statement of TodoModel.count, which builds its own params
Model_countStatement(completed, priority) ==
  LET clause == whereClause(completed, priority)
  IN [text |-> "SELECT COUNT", where |-> clause.where, limit |-> 0, offset |-> 0,
      params |-> clause.params]

\* a WHERE clause that leaves the priority filter out
Where_WithoutPriority(rows, completed, priority) ==
  SelectSeq(rows, LAMBDA row : IsSome(completed) => row.completed = Get(completed))

\* the rows `FROM todos <whereClause>` keeps: completed = $1 when the status
\* filter put a parameter, priority = $n when the priority filter did
Where(rows, completed, priority) ==
  SelectSeq(rows, LAMBDA row :
    /\ (IsSome(completed) => row.completed = Get(completed))
    /\ (IsSome(priority) => row.priority = Get(priority)))

\* sorted is the table in one of the orders ORDER BY created_at DESC allows
Sql_getAllTodos(ts, sorted, query) ==
  LET page == IF IsSome(query.page) THEN Get(query.page) ELSE DefaultPage
      limit == IF IsSome(query.limit) THEN Get(query.limit) ELSE DefaultLimit
      offset == (page - 1) * limit
      completed == IF query.status = Some("completed") THEN Some(TRUE)
                   ELSE IF query.status = Some("pending") THEN Some(FALSE)
                   ELSE None
      rows == slice(Where(sorted, completed, query.priority), offset, limit)
      total == Len(Where(ts, completed, query.priority))
      statement == listStatement(completed, query.priority, limit, offset)
  IN Outcome(ts, 0, [R("list") EXCEPT !.query = query, !.data = rows,
                                      !.page = page, !.limit = limit, !.total = total,
                                      !.sql = << statement,
                                                 countStatement(completed, query.priority,
                                                                statement.params) >>])

\* router.get('/'): every row, newest first; no filter and no pagination
Route_getAll(ts, sorted, query) ==
  Outcome(ts, 0, [R("list") EXCEPT !.query = query, !.data = sorted,
                                   !.total = Len(sorted)])

\* TodoModel.getAll(options) for the rows and TodoModel.count(options) for
\* the total
Model_getAll(ts, sorted, options) ==
  LET limit == IF IsSome(options.limit) THEN Get(options.limit) ELSE DefaultLimit
      offset == IF IsSome(options.offset) THEN Get(options.offset) ELSE 0
      completed == IF IsSome(options.status)
                   THEN Some(Get(options.status) = "completed") ELSE None
      rows == slice(Where(sorted, completed, options.priority), offset, limit)
      count == Len(Where(ts, completed, options.priority))
  IN Outcome(ts, 0, [R("list") EXCEPT !.query = options, !.data = rows,
                                      !.limit = limit, !.total = count,
                                      !.sql = << listStatement(completed, options.priority,
                                                               limit, offset),
                                                 Model_countStatement(completed,
                                                                      options.priority) >>])

\* the mock router's router.get('/'): the array as it is
Mock_getAll(ts, query) ==
  Outcome(ts, 0, [R("list") EXCEPT !.query = query, !.data = ts, !.total = Len(ts)])

getAllTodos(im, ts, sorted, query) ==
  CASE im = "mem" -> Mem_getAllTodos(ts, query)
    [] im = "sql" -> Sql_getAllTodos(ts, sorted, query)
    [] im = "route" -> Route_getAll(ts, sorted, query)
    [] im = "model" -> Model_getAll(ts, sorted, query)
    [] im = "mock" -> Mock_getAll(ts, query)

---------------------------------------------------------------------------
(* GET /stats *)

Mem_getStats(ts, t) ==
  LET total == Len(ts)
      completed == Len(SelectSeq(ts, LAMBDA todo : todo.completed))
      stats ==
        [total |-> total,
         completed |-> completed,
         pending |-> total - completed,
         high |-> Len(SelectSeq(ts, LAMBDA todo : todo.priority = "high")),
         medium |-> Len(SelectSeq(ts, LAMBDA todo : todo.priority = "medium")),
         low |-> Len(SelectSeq(ts, LAMBDA todo : todo.priority = "low")),
         overdue |-> Len(SelectSeq(ts, LAMBDA todo :
                       todo.due_date # NULL /\ todo.due_date < t /\ ~todo.completed))]
  IN Outcome(ts, 0, [R("stats") EXCEPT !.stats = stats])

\* statistics whose overdue count takes the completed todos in
SqlStats_OverdueWithCompleted(ts, t) ==
  [total |-> Len(ts),
   completed |-> Count(ts, LAMBDA row : row.completed = TRUE),
   pending |-> Count(ts, LAMBDA row : row.completed = FALSE),
   high |-> Count(ts, LAMBDA row : row.priority = "high"),
   medium |-> Count(ts, LAMBDA row : row.priority = "medium"),
   low |-> Count(ts, LAMBDA row : row.priority = "low"),
   overdue |-> Count(ts, LAMBDA row : row.due_date # NULL /\ row.due_date < t)]

\* SELECT COUNT(*), COUNT(*) FILTER (WHERE ...), ... FROM todos: one
\* statement, used by the SQL-backed controller and by TodoModel.getStats
SqlStats(ts, t) ==
  [total |-> Len(ts),
   completed |-> Count(ts, LAMBDA row : row.completed = TRUE),
   pending |-> Count(ts, LAMBDA row : row.completed = FALSE),
   high |-> Count(ts, LAMBDA row : row.priority = "high"),
   medium |-> Count(ts, LAMBDA row : row.priority = "medium"),
   low |-> Count(ts, LAMBDA row : row.priority = "low"),
   overdue |-> Count(ts, LAMBDA row :
                 row.due_date # NULL /\ row.due_date < t /\ row.completed = FALSE)]

Sql_getStats(ts, t) == Outcome(ts, 0, [R("stats") EXCEPT !.stats = SqlStats(ts, t)])

Model_getStats(ts, t) == Outcome(ts, 0, [R("stats") EXCEPT !.stats = SqlStats(ts, t)])

\* router.get('/stats/summary'): three COUNT queries and one GROUP BY; no
\* overdue count
Route_stats(ts) ==
  Outcome(ts, 0, [R("stats") EXCEPT !.stats =
    [total |-> Len(ts),
     completed |-> Count(ts, LAMBDA row : row.completed = TRUE),
     pending |-> Count(ts, LAMBDA row : row.completed = FALSE),
     high |-> Count(ts, LAMBDA row : row.priority = "high"),
     medium |-> Count(ts, LAMBDA row : row.priority = "medium"),
     low |-> Count(ts, LAMBDA row : row.priority = "low"),
     overdue |-> 0]])

\* the mock router's router.get('/stats/summary'): no overdue count
Mock_stats(ts) ==
  Outcome(ts, 0, [R("stats") EXCEPT !.stats =
    [total |-> Len(ts),
     completed |-> Len(SelectSeq(ts, LAMBDA todo : todo.completed)),
     pending |-> Len(SelectSeq(ts, LAMBDA todo : ~todo.completed)),
     high |-> Len(SelectSeq(ts, LAMBDA todo : todo.priority = "high")),
     medium |-> Len(SelectSeq(ts, LAMBDA todo : todo.priority = "medium")),
     low |-> Len(SelectSeq(ts, LAMBDA todo : todo.priority = "low")),
     overdue |-> 0]])

getStats(im, ts, t) ==
  CASE im = "mem" -> Mem_getStats(ts, t)
    [] im = "sql" -> Sql_getStats(ts, t)
    [] im = "route" -> Route_stats(ts)
    [] im = "model" -> Model_getStats(ts, t)
    [] im = "mock" -> Mock_stats(ts)

---------------------------------------------------------------------------
(* GET /search (the two controllers), TodoModel.search *)

MaxSearchLimit == 100

searchSchema(query) ==
  FirstOf(<< IF ~IsSome(query.q) THEN "q" ELSE "",
             IF IsSome(query.q) /\ Len(Get(query.q)) < 1 THEN "q" ELSE "",
             IF IsSome(query.page) /\ Get(query.page) < 1 THEN "page" ELSE "",
             IF IsSome(query.limit) /\ Get(query.limit) < 1 THEN "limit" ELSE "",
             IF IsSome(query.limit) /\ Get(query.limit) > MaxSearchLimit THEN "limit" ELSE "",
             IF IsSome(query.status) THEN "status" ELSE "",
             IF IsSome(query.priority) THEN "priority" ELSE "",
             IF IsSome(query.offset) THEN "offset" ELSE "" >>)

Mem_searchTodos(ts, query) ==
  LET error == searchSchema(query)
      q == Get(query.q)
      page == IF IsSome(query.page) THEN Get(query.page) ELSE DefaultPage
      limit == IF IsSome(query.limit) THEN Get(query.limit) ELSE DefaultLimit
      searchResults ==
        SelectSeq(ts, LAMBDA todo :
          \/ includes(toLowerCase(todo.title), toLowerCase(q))
          \/ /\ todo.description # None /\ Get(todo.description) # << >>
             /\ includes(toLowerCase(Get(todo.description)), toLowerCase(q)))
  IN IF error # ""
     THEN Outcome(ts, 0, [Rejected("search", 0, NoBody, "Validation error", error)
                            EXCEPT !.query = query])
     ELSE Outcome(ts, 0, [R("search") EXCEPT !.query = query, !.data = searchResults,
                                             !.page = page, !.limit = limit,
                                             !.results = Len(searchResults)])

\* WHERE title ILIKE $1 OR description ILIKE $1, with $1 = `%${q}%`
SqlSearch(rows, q) ==
  SelectSeq(rows, LAMBDA row :
    \/ ILIKE(row.title, <<"%">> \o q \o <<"%">>)
    \/ /\ row.description # None
       /\ ILIKE(Get(row.description), <<"%">> \o q \o <<"%">>))

Sql_searchTodos(ts, sorted, query) ==
  LET error == searchSchema(query)
      page == IF IsSome(query.page) THEN Get(query.page) ELSE DefaultPage
      limit == IF IsSome(query.limit) THEN Get(query.limit) ELSE DefaultLimit
      offset == (page - 1) * limit
      rows == slice(SqlSearch(sorted, Get(query.q)), offset, limit)
  IN IF error # ""
     THEN Outcome(ts, 0, [Rejected("search", 0, NoBody, "Validation error", error)
                            EXCEPT !.query = query])
     ELSE Outcome(ts, 0, [R("search") EXCEPT !.query = query, !.data = rows,
                                             !.page = page, !.limit = limit,
                                             !.results = Len(rows)])

Model_search(ts, sorted, options) ==
  LET limit == IF IsSome(options.limit) THEN Get(options.limit) ELSE DefaultLimit
      offset == IF IsSome(options.offset) THEN Get(options.offset) ELSE 0
      rows == slice(SqlSearch(sorted, Get(options.q)), offset, limit)
  IN Outcome(ts, 0, [R("search") EXCEPT !.query = options, !.data = rows,
                                        !.limit = limit, !.results = Len(rows)])

searchTodos(im, ts, sorted, query) ==
  CASE im = "mem" -> Mem_searchTodos(ts, query)
    [] im = "sql" -> Sql_searchTodos(ts, sorted, query)
    [] im = "model" -> Model_search(ts, sorted, query)

\* the two todos the in-memory controller starts with, created when the
\* module is loaded (their texts shortened to the model's characters)
MemSeed(t) ==
  << [id |-> 1, title |-> <<"A", "b">>, description |-> Some(<<"b">>),
      completed |-> FALSE, priority |-> "medium", due_date |-> NULL,
      created_at |-> t, updated_at |-> t, dueDate |-> None],
     [id |-> 2, title |-> <<"B">>, description |-> Some(<<"a">>),
      completed |-> FALSE, priority |-> "high", due_date |-> t + SevenDays,
      created_at |-> t, updated_at |-> t, dueDate |-> None] >>

\* the two todos the mock router starts with: no updated_at, no due_date
MockSeed(t) ==
  << [id |-> 1, title |-> <<"A", "b">>, description |-> Some(<<"b">>),
      completed |-> TRUE, priority |-> "high", due_date |-> NULL,
      created_at |-> t, updated_at |-> NULL, dueDate |-> None],
     [id |-> 2, title |-> <<"B">>, description |-> Some(<<"a">>),
      completed |-> FALSE, priority |-> "medium", due_date |-> NULL,
      created_at |-> t, updated_at |-> NULL, dueDate |-> None] >>

---------------------------------------------------------------------------
(* The server process *)

\* `const maxRetries = 5` and `const retryDelay = 5000` of connectDatabase
maxRetries == 5
retryDelay == 5000

Signals == {"SIGTERM", "SIGINT"}
Faults == {"uncaughtException", "unhandledRejection"}
Events == Signals \cup Faults

\* the two startServer functions: server.js, and the one for Cloud Run
Variants == {"server", "cloudrun"}

\* the process when startServer is called.  pc is where the process is:
\* "start", "connect" (awaiting pool.connect), "query" (awaiting SELECT NOW()),
\* "delay" (awaiting the retry timer), "connected" (connectDatabase returned),
\* "init" (awaiting initializeDatabase), "failed" (in startServer's catch),
\* "serving", "closing" (server.close called), "exited".  attempt is the loop
\* variable of connectDatabase, failures counts its catch blocks entered,
\* waited sums the delays it awaited, result is "true" once it returned true
\* and "thrown" once it threw, leaked counts the clients it took from the pool
\* and did not release.  handlers tells that the process.on handlers
\* are registered, received holds the signals and faults delivered, shutdowns
\* counts the calls of gracefulShutdown, cause is what made a process that was
\* shutting down exit ("close" or "timer"), and exit is the exit code once the
\* process has exited.
Booting(variant, dbUrl) ==
  [variant |-> variant, dbUrl |-> dbUrl, pc |-> "start", attempt |-> 0,
   failures |-> 0, waited |-> 0, result |-> "none", listening |-> FALSE,
   leaked |-> 0, handlers |-> FALSE, received |-> {}, shutdowns |-> 0,
   cause |-> "none", exit |-> None]

\* the process of server.js once app.listen was called
Serving ==
  [Booting("server", TRUE) EXCEPT !.pc = "serving", !.attempt = 1,
                                  !.result = "true", !.listening = TRUE,
                                  !.handlers = TRUE]

\* the rate limiter's clients
Clients == {"a", "b"}

\* `windowMs = 15 * 60 * 1000` and `max = 100`, the defaults of createUserRateLimit
DefaultWindowMs == 900000
DefaultMax == 100

\* the middleware as createUserRateLimit returns it: `requests = new Map()`,
\* and no request answered yet.  An entry of the Map is a sequence: empty
\* when the Map has no such key, else one {count, resetTime}.  last is the
\* latest request: its client, whether next() was called, and the status
\* answered when it was not.
NewLimiter ==
  [requests |-> [c \in Clients |-> << >>],
   last |-> [client |-> "", next |-> FALSE, status |-> 0]]

\* at most this many handlers are between two of their queries
Slots == {1, 2}

\* a handler between two queries: router.put after its SELECT (seen holds the
\* rows of existingTodo), or router.get('/stats/summary') after pc of its four
\* queries (stats holds the counts read so far)
Idle ==
  [op |-> "none", pc |-> 0, id |-> 0, body |-> NoBody, seen |-> << >>,
   stats |-> NoStats]

\* nothing but handlers that answer in one step is at work
\* new DeploymentTester(baseUrl): no test registered, no result.  pc is where
\* main is: "setup" (registering tests), "running" (in the loop of
\* runAllTests, index tests done), "rejected" (runAllTests rejected),
\* "exited"
NewTester ==
  [tests |-> << >>, results |-> << >>, pc |-> "setup", index |-> 0, exit |-> None]

Aside ==
  /\ limiter = NewLimiter
  /\ flight = [slot \in Slots |-> Idle]
  /\ tester = NewTester

Init ==
  /\ proc = Serving
  /\ Aside
  /\ impl \in Impls
  /\ now = 0
  /\ todos = CASE impl = "mem" -> MemSeed(0)
              [] impl = "mock" -> MockSeed(0)
              [] OTHER -> << >>
  /\ nextId = IF impl \in {"mem", "mock"} THEN 3 ELSE 1
  /\ resp = NoResp

\* the clock advances; no request is handled in this step
Tick ==
  /\ now < MaxTime
  /\ now' = now + 1
  /\ resp' = NoResp
  /\ UNCHANGED <<impl, todos, nextId, proc, aside>>

\* the step that handles a request, which only a listening server receives:
\* the store and the response become the handler's outcome
Handle(outcome) ==
  /\ proc.listening
  /\ todos' = outcome.todos
  /\ resp' = outcome.resp
  /\ UNCHANGED <<impl, now, proc, aside>>

Ids == 1..MaxId

Create(bodies, maxId) ==
  /\ nextId <= maxId
  /\ \E body \in bodies :
       LET outcome == createTodo(impl, todos, nextId, body, now)
       IN Handle(outcome) /\ nextId' = outcome.nextId

\* GET /:id with the text param in the place of :id
GetByText(param) ==
  LET outcome == getTodoById(impl, todos, param)
  IN Handle([outcome EXCEPT !.resp.param = param]) /\ UNCHANGED nextId

GetById == \E id \in Ids : GetByText(String(id))

Update(bodies) ==
  \E id \in Ids, body \in bodies :
    Handle(updateTodo(impl, todos, id, body, now)) /\ UNCHANGED nextId

Delete ==
  \E id \in Ids : Handle(deleteTodo(impl, todos, id)) /\ UNCHANGED nextId

Complete ==
  /\ impl \in {"mem", "sql"}
  /\ \E id \in Ids : Handle(completeTodo(impl, todos, id, now)) /\ UNCHANGED nextId

Uncomplete ==
  /\ impl \in {"mem", "sql"}
  /\ \E id \in Ids : Handle(uncompleteTodo(impl, todos, id, now)) /\ UNCHANGED nextId

List(queries) ==
  \E query \in queries, sorted \in OrderByCreatedAtDesc(todos) :
    Handle(getAllTodos(impl, todos, sorted, query)) /\ UNCHANGED nextId

Stats ==
  Handle(getStats(impl, todos, now)) /\ UNCHANGED nextId

\* TodoModel.search is called with a search term
Search(queries) ==
  /\ impl \in {"mem", "sql", "model"}
  /\ \E query \in queries, sorted \in OrderByCreatedAtDesc(todos) :
       /\ impl = "model" => IsSome(query.q)
       /\ Handle(searchTodos(impl, todos, sorted, query))
       /\ UNCHANGED nextId

---------------------------------------------------------------------------
(* The life cycle of a todo: create, read, complete, uncomplete, delete *)

Body(title, description, priority, dueDate) ==
  [NoBody EXCEPT !.title = title, !.description = description,
                 !.priority = priority, !.dueDate = dueDate]

LifeBodies ==
  { Body(Some(<<"a">>), None, None, None),
    Body(Some(<< >>), None, None, None) }

LifeCreate == Create(LifeBodies, MaxId)

Next ==
  \/ Tick
  \/ LifeCreate
  \/ GetById
  \/ Delete
  \/ Complete
  \/ Uncomplete

Spec == Init /\ [][Next]_vars

---------------------------------------------------------------------------
(* Creating todos from every kind of body, and reading them back *)

CreateBodies ==
  { Body(Some(<<"a">>), None, None, None),
    Body(Some(<<" ", "a">>), Some(<<"B", " ">>), Some("high"), Some(0)),
    [Body(Some(<<"a">>), Some(<< >>), Some("low"), None) EXCEPT !.due_date = Some(0)],
    Body(Some(<< >>), None, None, None),
    Body(Some(<<" ">>), None, None, Some(NULL)),
    Body(Some(<<"a">>), None, Some("urgent"), None),
    Body(None, Some(<<"B">>), None, None) }

AnyCreate == Create(CreateBodies, MaxId)

NextCreate ==
  \/ Tick
  \/ AnyCreate
  \/ GetById
  \/ Delete

SpecCreate == Init /\ [][NextCreate]_vars

---------------------------------------------------------------------------
(* Updating todos *)

UpdateBodies ==
  { NoBody,
    [NoBody EXCEPT !.title = Some(<<"B">>), !.description = Some(<<"a">>),
                   !.completed = Some(TRUE), !.priority = Some("low")],
    [NoBody EXCEPT !.dueDate = Some(1)],
    [NoBody EXCEPT !.dueDate = Some(NULL)],
    [NoBody EXCEPT !.due_date = Some(1)],
    [NoBody EXCEPT !.priority = Some("invalid")] }

PlainCreate == Create({Body(Some(<<"a">>), None, None, None)}, MaxUpdateId)
AnyUpdate == Update(UpdateBodies)

NextUpdate ==
  \/ Tick
  \/ PlainCreate
  \/ AnyUpdate
  \/ GetById

SpecUpdate == Init /\ [][NextUpdate]_vars

---------------------------------------------------------------------------
(* Listing and searching *)

ListBodies ==
  { Body(Some(<<"a">>), None, None, None),
    Body(Some(<<"b">>), Some(<<"B", "a">>), Some("high"), None) }

Query(page, limit, status, priority) ==
  [NoQuery EXCEPT !.page = page, !.limit = limit, !.status = status,
                  !.priority = priority]

ListQueries ==
  { NoQuery,
    Query(None, Some(1), None, None),
    Query(Some(2), Some(1), None, None),
    Query(Some(1), Some(2), None, None),
    Query(Some(2), Some(2), None, None),
    Query(None, Some(101), None, None),
    Query(None, None, Some("completed"), None),
    Query(None, None, Some("pending"), Some("high")),
    Query(Some(2), Some(1), Some("pending"), None),
    Query(None, Some(1), Some("completed"), Some("high")),
    Query(None, None, None, Some("medium")),
    [NoQuery EXCEPT !.limit = Some(1), !.offset = Some(1)] }

SearchQuery(q, page, limit) ==
  [NoQuery EXCEPT !.q = q, !.page = page, !.limit = limit]

SearchQueries ==
  { SearchQuery(Some(<<"a">>), None, None),
    SearchQuery(Some(<<"B">>), None, Some(1)),
    SearchQuery(Some(<<"b">>), Some(2), Some(1)),
    SearchQuery(Some(<<"_">>), None, None),
    SearchQuery(Some(<<"a", "b">>), None, Some(2)),
    SearchQuery(Some(<< >>), None, None),
    SearchQuery(None, Some(1), Some(5)),
    SearchQuery(Some(<<"a">>), None, Some(101)) }

ListCreate == Create(ListBodies, MaxId)
AnyList == List(ListQueries)
AnySearch == Search(SearchQueries)

NextList ==
  \/ Tick
  \/ ListCreate
  \/ Complete
  \/ AnyList
  \/ AnySearch

SpecList == Init /\ [][NextList]_vars

---------------------------------------------------------------------------
(* Creating from bodies that validation accepts and bodies that it refuses *)

\* 'a'.repeat(256)
LongTitle == [k \in 1..(MaxTitleLen + 1) |-> "a"]

ValidateBodies ==
  { Body(Some(<<"a">>), None, None, None),
    Body(Some(<<"a">>), None, Some("low"), None),
    Body(Some(<<"b">>), None, Some("high"), None),
    NoBody,
    Body(Some(<< >>), None, None, None),
    Body(Some(LongTitle), None, None, None),
    Body(Some(<<"a">>), None, Some("urgent"), None),
    Body(Some(<<"a">>), None, Some("invalid"), None) }

ValidateCreate == Create(ValidateBodies, MaxId)

NextValidate ==
  \/ Tick
  \/ ValidateCreate
  \/ GetById

SpecValidate == Init /\ [][NextValidate]_vars

---------------------------------------------------------------------------
(* Requests that name an id, stored or not *)

ByIdBodies ==
  { [NoBody EXCEPT !.title = Some(<<"b">>)],
    [NoBody EXCEPT !.priority = Some("invalid")] }

ByIdUpdate == Update(ByIdBodies)

\* a text that is not a number, as in GET /api/v1/todos/invalid-id
InvalidIdTexts == { <<"x">> }

GetByInvalidId == \E param \in InvalidIdTexts : GetByText(param)

NextById ==
  \/ Tick
  \/ PlainCreate
  \/ GetById
  \/ GetByInvalidId
  \/ ByIdUpdate
  \/ Complete
  \/ Uncomplete
  \/ Delete

SpecById == Init /\ [][NextById]_vars

---------------------------------------------------------------------------
(* Filtering: todos created at one clock reading, listed under the filters *)

FilterQueries ==
  { NoQuery,
    Query(None, None, Some("completed"), None),
    Query(None, None, Some("pending"), Some("high")),
    Query(Some(2), Some(1), Some("pending"), None),
    Query(None, Some(1), Some("completed"), Some("high")),
    Query(None, None, None, Some("medium")),
    [NoQuery EXCEPT !.limit = Some(1), !.offset = Some(1), !.priority = Some("high")] }

FilterList == List(FilterQueries)

NextFilter ==
  \/ ListCreate
  \/ Complete
  \/ Uncomplete
  \/ FilterList

SpecFilter == Init /\ [][NextFilter]_vars

---------------------------------------------------------------------------
(* Statistics *)

StatsBodies ==
  { Body(Some(<<"a">>), None, None, None),
    Body(Some(<<"a">>), None, Some("low"), Some(0)) }

StatsUpdateBodies ==
  { [NoBody EXCEPT !.completed = Some(TRUE), !.dueDate = Some(0)] }

StatsCreate == Create(StatsBodies, MaxUpdateId)
StatsUpdate == Update(StatsUpdateBodies)

NextStats ==
  \/ Tick
  \/ StatsCreate
  \/ StatsUpdate
  \/ Complete
  \/ Uncomplete
  \/ Delete
  \/ Stats

SpecStats == Init /\ [][NextStats]_vars

---------------------------------------------------------------------------
(* Starting and stopping the server *)

\* no request is handled while the process starts or stops
store == <<impl, todos, nextId, now, resp, aside>>

\* startServer up to its first await: server.js always calls connectDatabase,
\* the Cloud Run startServer calls it when DATABASE_URL is set and listens at
\* once when it is not
StartServer ==
  /\ proc.pc = "start"
  /\ proc' = IF proc.variant = "server" \/ proc.dbUrl
             THEN [proc EXCEPT !.pc = "connect", !.attempt = 1]
             ELSE [proc EXCEPT !.pc = "serving", !.listening = TRUE]
  /\ UNCHANGED store

\* the catch block of connectDatabase, entered in iteration p.attempt
\* connectDatabase whose catch block awaits the delay in the last iteration too
caught_DelaysAfterLast(p) ==
  IF p.attempt = maxRetries
  THEN [p EXCEPT !.failures = @ + 1, !.waited = @ + retryDelay,
                 !.result = "thrown", !.pc = "failed"]
  ELSE [p EXCEPT !.failures = @ + 1, !.pc = "delay"]

caught(p) ==
  IF p.attempt = maxRetries
  THEN [p EXCEPT !.failures = @ + 1, !.result = "thrown", !.pc = "failed"]
  ELSE [p EXCEPT !.failures = @ + 1, !.pc = "delay"]

\* `await pool.connect()` resolves with a client
PoolConnects ==
  /\ proc.pc = "connect"
  /\ proc' = [proc EXCEPT !.pc = "query"]
  /\ UNCHANGED store

\* `await pool.connect()` rejects, after connectionTimeoutMillis at the latest
PoolConnectFails ==
  /\ proc.pc = "connect"
  /\ proc' = caught(proc)
  /\ UNCHANGED store

\* `await client.query('SELECT NOW()')` resolves: release the client, return true
QueryAnswers ==
  /\ proc.pc = "query"
  /\ proc' = [proc EXCEPT !.result = "true", !.pc = "connected"]
  /\ UNCHANGED store

\* `await client.query('SELECT NOW()')` rejects: the catch block is entered
\* before client.release() is reached
QueryFails ==
  /\ proc.pc = "query"
  /\ proc' = caught([proc EXCEPT !.leaked = @ + 1])
  /\ UNCHANGED store

\* the timer of `setTimeout(resolve, retryDelay)` fires: next iteration
DelayElapses ==
  /\ proc.pc = "delay"
  /\ proc' = [proc EXCEPT !.waited = @ + retryDelay, !.attempt = @ + 1,
                          !.pc = "connect"]
  /\ UNCHANGED store

\* startServer after connectDatabase returned: server.js calls app.listen and
\* registers the process handlers, the Cloud Run one awaits initializeDatabase
Connected ==
  /\ proc.pc = "connected"
  /\ proc' = IF proc.variant = "server"
             THEN [proc EXCEPT !.pc = "serving", !.listening = TRUE,
                               !.handlers = TRUE]
             ELSE [proc EXCEPT !.pc = "init"]
  /\ UNCHANGED store

\* `await initializeDatabase()` resolves: app.listen
Initialized ==
  /\ proc.pc = "init"
  /\ proc' = [proc EXCEPT !.pc = "serving", !.listening = TRUE]
  /\ UNCHANGED store

\* `await initializeDatabase()` rejects
InitializeFails ==
  /\ proc.pc = "init"
  /\ proc' = [proc EXCEPT !.pc = "failed"]
  /\ UNCHANGED store

\* the catch block of startServer: process.exit(1)
ExitFailed ==
  /\ proc.pc = "failed"
  /\ proc' = [proc EXCEPT !.pc = "exited", !.exit = Some(1)]
  /\ UNCHANGED store

\* the exit code of a process that a signal terminates
killedBy(signal) == IF signal = "SIGTERM" THEN 128 + 15 ELSE 128 + 2

\* gracefulShutdown: server.close, which stops listening, and the timer of
\* the forced exit
\* gracefulShutdown is followed this many times in one process
MaxShutdowns == 2

\* every call of gracefulShutdown calls server.close with a callback and arms
\* one more 10-second timer
gracefulShutdown(p, event) ==
  [p EXCEPT !.pc = "closing", !.listening = FALSE,
            !.received = @ \cup {event}, !.shutdowns = @ + 1]

\* what the process does with a signal or a fault when no handler is
\* registered: a signal terminates it, a fault ends it with code 1
unhandled(p, event) ==
  [p EXCEPT !.pc = "exited", !.listening = FALSE,
            !.received = @ \cup {event},
            !.exit = Some(IF event \in Signals THEN killedBy(event) ELSE 1)]

\* a signal is delivered, or an exception or a rejection reaches the top
Receive ==
  /\ proc.pc # "exited"
  /\ proc.handlers => proc.shutdowns < MaxShutdowns
  /\ \E event \in Events :
       proc' = IF proc.handlers THEN gracefulShutdown(proc, event)
                                ELSE unhandled(proc, event)
  /\ UNCHANGED store

\* the callback of server.close: process.exit(0)
ServerClosed ==
  /\ proc.pc = "closing"
  /\ proc' = [proc EXCEPT !.pc = "exited", !.cause = "close", !.exit = Some(0)]
  /\ UNCHANGED store

\* a force timer whose callback exits with code 0
ForcedExit_ExitsZero ==
  /\ proc.pc = "closing"
  /\ proc.shutdowns >= 1
  /\ proc' = [proc EXCEPT !.pc = "exited", !.cause = "timer", !.exit = Some(0)]
  /\ UNCHANGED store

\* the earliest timer of gracefulShutdown fires after 10 seconds, before the
\* server has closed: process.exit(1)
ForcedExit ==
  /\ proc.pc = "closing"
  /\ proc.shutdowns >= 1
  /\ proc' = [proc EXCEPT !.pc = "exited", !.cause = "timer", !.exit = Some(1)]
  /\ UNCHANGED store

InitStart ==
  /\ impl = "sql"
  /\ now = 0
  /\ todos = << >>
  /\ nextId = 1
  /\ resp = NoResp
  /\ proc \in { Booting(variant, dbUrl) : variant \in Variants, dbUrl \in BOOLEAN }
  /\ Aside

\* the steps the process takes by itself
ProcessStep ==
  \/ StartServer
  \/ PoolConnects
  \/ PoolConnectFails
  \/ QueryAnswers
  \/ QueryFails
  \/ DelayElapses
  \/ Connected
  \/ Initialized
  \/ InitializeFails
  \/ ExitFailed
  \/ ServerClosed
  \/ ForcedExit

NextStart ==
  \/ ProcessStep
  \/ Receive

\* the event loop runs every callback that is ready; an awaited promise
\* settles and a timer fires
SpecStart == InitStart /\ [][NextStart]_vars /\ WF_vars(ProcessStep)

---------------------------------------------------------------------------
(* Requests that validation refuses, some of them for two reasons *)

RefusedBodies ==
  { [NoBody EXCEPT !.title = Some(<< >>), !.priority = Some("invalid")],
    [NoBody EXCEPT !.title = Some(LongTitle)],
    [NoBody EXCEPT !.description = Some(<<"a">>), !.priority = Some("urgent")] }

RefusedQueries ==
  { NoQuery,
    SearchQuery(Some(<< >>), Some(0), None),
    SearchQuery(Some(<<"a">>), Some(0), Some(MaxSearchLimit + 1)),
    SearchQuery(Some(<<"a">>), None, Some(0)) }

RefusedCreate == Create(RefusedBodies, MaxUpdateId)
RefusedUpdate == Update(RefusedBodies)
RefusedSearch == Search(RefusedQueries)

NextRefuse ==
  \/ PlainCreate
  \/ Delete
  \/ RefusedCreate
  \/ RefusedUpdate
  \/ RefusedSearch

SpecRefuse == Init /\ [][NextRefuse]_vars

---------------------------------------------------------------------------
(* Requests of the SQL routes that overlap: a handler awaits each of its   *)
(* queries, and the handlers of other requests run meanwhile               *)

\* the slot a handler that starts to await takes
FreeSlot(slot) ==
  /\ flight[slot] = Idle
  /\ \A other \in Slots : other < slot => flight[other] # Idle

\* a handler awaits its next query: nothing is answered in this step
Await(slot, request) ==
  /\ flight' = [flight EXCEPT ![slot] = request]
  /\ resp' = NoResp
  /\ UNCHANGED <<impl, todos, nextId, now, proc, limiter, tester>>

\* a handler that awaited runs to its response
Resume(slot, outcome) ==
  /\ flight' = [flight EXCEPT ![slot] = Idle]
  /\ todos' = outcome.todos
  /\ resp' = outcome.resp
  /\ UNCHANGED <<impl, nextId, now, proc, limiter, tester>>

\* router.put up to its UPDATE: it answers 404 or 400, or awaits the UPDATE
PutSelect(bodies, ids) ==
  /\ impl = "route"
  /\ \E slot \in Slots, id \in ids, body \in bodies :
       /\ FreeSlot(slot)
       /\ IF Route_putCheck(todos, id, body) # NoResp
          THEN Handle(Outcome(todos, 0, Route_putCheck(todos, id, body)))
          ELSE Await(slot, [Idle EXCEPT !.op = "put", !.id = id, !.body = body,
                                        !.seen = SqlSelectById(todos, id)])
       /\ UNCHANGED nextId

\* router.put from its UPDATE on, on the table as it is by then
PutUpdate ==
  \E slot \in Slots :
    /\ flight[slot].op = "put"
    /\ LET outcome == Route_putUpdate(todos, flight[slot].id, flight[slot].body, now)
       IN Resume(slot, [outcome EXCEPT !.resp.seen = flight[slot].seen])

\* router.get('/stats/summary'): SELECT COUNT(*) as total
StatsTotal ==
  /\ impl = "route"
  /\ \E slot \in Slots :
       /\ FreeSlot(slot)
       /\ Await(slot, [Idle EXCEPT !.op = "stats", !.pc = 1,
                                   !.stats.total = Len(todos)])

\* ... SELECT COUNT(*) as completed ... WHERE completed = true
StatsCompleted ==
  \E slot \in Slots :
    /\ flight[slot].op = "stats" /\ flight[slot].pc = 1
    /\ Await(slot, [flight[slot] EXCEPT !.pc = 2,
                      !.stats.completed = Route_stats(todos).resp.stats.completed])

\* ... SELECT COUNT(*) as pending ... WHERE completed = false
StatsPending ==
  \E slot \in Slots :
    /\ flight[slot].op = "stats" /\ flight[slot].pc = 2
    /\ Await(slot, [flight[slot] EXCEPT !.pc = 3,
                      !.stats.pending = Route_stats(todos).resp.stats.pending])

\* ... SELECT priority, COUNT(*) ... GROUP BY priority, and the response
StatsByPriority ==
  \E slot \in Slots :
    /\ flight[slot].op = "stats" /\ flight[slot].pc = 3
    /\ LET byPriority == Route_stats(todos).resp.stats
       IN Resume(slot, Outcome(todos, 0, [R("stats") EXCEPT !.stats =
            [flight[slot].stats EXCEPT !.high = byPriority.high,
                                       !.medium = byPriority.medium,
                                       !.low = byPriority.low]]))

\* the store that several requests reach at a time is the table
InitRace == Init /\ impl \in {"sql", "route"}

CompletedBody == [NoBody EXCEPT !.completed = Some(TRUE)]

\* the handlers that issue one statement
RaceUpdate == Update({CompletedBody})
SqlStatsRequest == impl = "sql" /\ Stats

NextStatsRace ==
  \/ PlainCreate
  \/ Delete
  \/ RaceUpdate
  \/ SqlStatsRequest
  \/ StatsTotal
  \/ StatsCompleted
  \/ StatsPending
  \/ StatsByPriority

SpecStatsRace == InitRace /\ [][NextStatsRace]_vars

\* bodies that set one field each, and a body that sets both
PutBodies ==
  { [NoBody EXCEPT !.title = Some(<<"b">>)],
    CompletedBody,
    [NoBody EXCEPT !.title = Some(<<"c">>), !.completed = Some(FALSE)] }

\* the todos that overlapping PUT requests name have ids up to MaxRaceId
MaxRaceId == 1

RaceCreate == Create({Body(Some(<<"a">>), None, None, None)}, MaxRaceId)
SqlPut == impl = "sql" /\ Update(PutBodies)
RoutePutSelect == PutSelect(PutBodies, 1..MaxRaceId)

NextPutRace ==
  \/ RaceCreate
  \/ SqlPut
  \/ RoutePutSelect
  \/ PutUpdate

SpecPutRace == InitRace /\ [][NextPutRace]_vars

\* the same, with DELETE requests among them
NextPutDelete ==
  \/ NextPutRace
  \/ Delete

SpecPutDelete == InitRace /\ [][NextPutDelete]_vars

---------------------------------------------------------------------------
(* Rate limiting *)

\* the second client sends no request once its count has reached this
MaxOtherCount == 2

\* the middleware with `now >= resetTime` for `now > resetTime`
userRateLimit_ResetsAtResetTime(requests, userId, t, windowMs, max) ==
  LET fresh == [count |-> 1, resetTime |-> t + windowMs]
      userRequests == requests[userId][1]
  IN IF requests[userId] = << >>
     THEN [requests |-> [requests EXCEPT ![userId] = << fresh >>],
           next |-> TRUE, status |-> 0]
     ELSE IF t >= userRequests.resetTime
     THEN [requests |-> [requests EXCEPT ![userId] = << fresh >>],
           next |-> TRUE, status |-> 0]
     ELSE IF userRequests.count >= max
     THEN [requests |-> requests, next |-> FALSE, status |-> 429]
     ELSE [requests |-> [requests EXCEPT ![userId][1].count = @ + 1],
           next |-> TRUE, status |-> 0]

\* the middleware `(req, res, next) => ...` for a request of userId at time t
userRateLimit(requests, userId, t, windowMs, max) ==
  LET fresh == [count |-> 1, resetTime |-> t + windowMs]
      userRequests == requests[userId][1]
  IN IF requests[userId] = << >>
     THEN [requests |-> [requests EXCEPT ![userId] = << fresh >>],
           next |-> TRUE, status |-> 0]
     ELSE IF t > userRequests.resetTime
     THEN [requests |-> [requests EXCEPT ![userId] = << fresh >>],
           next |-> TRUE, status |-> 0]
     ELSE IF userRequests.count >= max
     THEN [requests |-> requests, next |-> FALSE, status |-> 429]
     ELSE [requests |-> [requests EXCEPT ![userId][1].count = @ + 1],
           next |-> TRUE, status |-> 0]

\* a request of a client passes through the middleware
LimitedRequest ==
  \E client \in Clients :
    /\ (client = "b" /\ limiter.requests[client] # << >>)
         => limiter.requests[client][1].count < MaxOtherCount
    /\ LET out == userRateLimit(limiter.requests, client, now,
                                DefaultWindowMs, DefaultMax)
       IN limiter' = [requests |-> out.requests,
                      last |-> [client |-> client, next |-> out.next,
                                status |-> out.status]]
    /\ UNCHANGED <<impl, todos, nextId, now, resp, proc, flight, tester>>

\* time passes between two requests: a millisecond, or a whole window; the
\* clock reads at most MaxTime milliseconds past the start of a window
Elapse ==
  \E d \in {1, DefaultWindowMs} :
    /\ now + d <= DefaultWindowMs + MaxTime
    /\ (now + d) % DefaultWindowMs <= MaxTime
    /\ now' = now + d
    /\ UNCHANGED <<impl, todos, nextId, resp, proc, aside>>

NextLimit ==
  \/ LimitedRequest
  \/ Elapse

InitLimit == Init /\ impl = "sql"

SpecLimit == InitLimit /\ [][NextLimit]_vars

---------------------------------------------------------------------------
(* The deployment tester (scripts/test-deployment.js)                      *)

\* at most this many tests are registered
MaxTests == 3

\* what awaiting a registered test function does: it resolves, it throws an
\* Error, or it throws a value that has no properties (null, undefined)
TestFunctions == {"resolves", "throwsError", "throwsNull"}

\* addTest(name, testFunction); the name of a test is its position
addTest(t, testFunction) ==
  [t EXCEPT !.tests = Append(@, [name |-> Len(@) + 1, testFunction |-> testFunction])]

\* runTest(test): the results after it, and whether it rejected.  The catch
\* block reads error.message while it builds the entry it pushes; of null
\* that read throws, inside the catch, before the push
runTest(results, test) ==
  CASE test.testFunction = "resolves" ->
         [results |-> Append(results, [name |-> test.name, status |-> "PASS",
                                       error |-> "null"]),
          rejected |-> FALSE]
    [] test.testFunction = "throwsError" ->
         [results |-> Append(results, [name |-> test.name, status |-> "FAIL",
                                       error |-> "message"]),
          rejected |-> FALSE]
    [] OTHER -> [results |-> results, rejected |-> TRUE]

\* getTestResults()
getTestResults(results) ==
  LET passed == Cardinality({k \in 1..Len(results) : results[k].status = "PASS"})
      total == Len(results)
  IN [success |-> passed = total, passed |-> passed, failed |-> total - passed,
      total |-> total, results |-> results]

\* setupTests registers one more test
AddTest ==
  /\ tester.pc = "setup"
  /\ Len(tester.tests) < MaxTests
  /\ \E testFunction \in TestFunctions : tester' = addTest(tester, testFunction)
  /\ UNCHANGED <<impl, todos, nextId, now, resp, proc, limiter, flight>>

\* main calls runAllTests
RunAllTests ==
  /\ tester.pc = "setup"
  /\ tester' = [tester EXCEPT !.pc = "running", !.index = 0]
  /\ UNCHANGED <<impl, todos, nextId, now, resp, proc, limiter, flight>>

\* one turn of `for (const test of this.tests) await this.runTest(test)`
RunTest ==
  /\ tester.pc = "running"
  /\ tester.index < Len(tester.tests)
  /\ LET ran == runTest(tester.results, tester.tests[tester.index + 1])
     IN tester' = IF ran.rejected
                  THEN [tester EXCEPT !.pc = "rejected"]
                  ELSE [tester EXCEPT !.results = ran.results, !.index = @ + 1]
  /\ UNCHANGED <<impl, todos, nextId, now, resp, proc, limiter, flight>>

\* the loop is over: printSummary, getTestResults, and main exits with
\* `results.success ? 0 : 1`
RunFinished ==
  /\ tester.pc = "running"
  /\ tester.index = Len(tester.tests)
  /\ tester' = [tester EXCEPT !.pc = "exited",
                              !.exit = Some(IF getTestResults(tester.results).success
                                            THEN 0 ELSE 1)]
  /\ UNCHANGED <<impl, todos, nextId, now, resp, proc, limiter, flight>>

\* the catch of main: process.exit(1)
RunnerFailed ==
  /\ tester.pc = "rejected"
  /\ tester' = [tester EXCEPT !.pc = "exited", !.exit = Some(1)]
  /\ UNCHANGED <<impl, todos, nextId, now, resp, proc, limiter, flight>>

InitTester == Init /\ impl = "sql"

NextTester ==
  \/ AddTest
  \/ RunAllTests
  \/ RunTest
  \/ RunFinished
  \/ RunnerFailed

SpecTester == InitTester /\ [][NextTester]_vars

---------------------------------------------------------------------------
(* Properties of PUT /:id with an empty body, of DELETE /:id and of        *)
(* PATCH /:id/complete                                                      *)

\* C1: in the in-memory and in the SQL-backed controller, PUT /:id with an
\* empty body answers 400 "No fields to update" for every id, stored or not,
\* and leaves every stored todo unchanged
C1_EmptyBodyIsRejected ==
  [][(impl \in {"mem", "sql"} /\ resp'.op = "update" /\ resp'.body = NoBody)
       => (/\ resp'.status = 400
           /\ resp'.error = "No fields to update"
           /\ todos' = todos)]_vars

\* C2: DELETE /:id of a stored id answers 200 and removes the todo; an id
\* that is not stored stays not stored through every step that creates no
\* todo, and GET /:id and DELETE /:id of an id that is not stored answer 404
C2_DeletedStaysNotFound ==
  [][\A id \in Ids :
       /\ (resp'.op = "delete" /\ resp'.id = id /\ Stored(todos, id))
            => (resp'.status = 200 /\ ~Stored(todos', id))
       /\ (~Stored(todos, id) /\ resp'.op # "create") => ~Stored(todos', id)
       /\ (resp'.op \in {"get", "delete"} /\ resp'.id = id /\ ~Stored(todos, id))
            => resp'.status = 404]_vars

\* a second DELETE of an id that was handed out and is stored no more
C2_SecondDeleteSeen ==
  /\ resp.op = "delete"
  /\ resp.status = 404
  /\ resp.id < nextId
  /\ ~Stored(todos, resp.id)

\* C3: in the in-memory and in the SQL-backed controller, PATCH /:id/complete
\* of a stored todo followed by GET /:id yields completed = true and an
\* updated_at strictly greater than the todo's updated_at before the patch
C3_CompleteStrictlyLater ==
  [][\A id \in Ids :
       (impl \in {"mem", "sql"} /\ resp'.op = "complete" /\ resp'.id = id
          /\ Stored(todos, id))
       => LET got == getTodoById(impl, todos', String(id)).resp
          IN /\ got.status = 200
             /\ got.data[1].completed
             /\ got.data[1].updated_at > Find(todos, id).updated_at]_vars

---------------------------------------------------------------------------
(* Properties of GET / and GET /search                                      *)

\* the todo passes the filters the query supplies
Satisfies(todo, query) ==
  /\ (query.status = Some("completed") => todo.completed)
  /\ (query.status = Some("pending") => ~todo.completed)
  /\ (IsSome(query.priority) => todo.priority = Get(query.priority))

\* the stored todos that pass the filters, in every order that is newest
\* first
FilteredNewestFirst(query) ==
  OrderByCreatedAtDesc(SelectSeq(todos, LAMBDA todo : Satisfies(todo, query)))

\* C4: in the in-memory and in the SQL-backed controller, GET /?page=p&limit=l
\* with p >= 1 and l >= 1 returns the rows (p-1)*l+1 .. p*l of the filtered
\* set ordered by created_at descending
C4_PageOfNewestFirst ==
  (/\ impl \in {"mem", "sql"}
   /\ resp.op = "list"
   /\ IsSome(resp.query.page) /\ Get(resp.query.page) >= 1
   /\ IsSome(resp.query.limit) /\ Get(resp.query.limit) >= 1)
  => \E ordered \in FilteredNewestFirst(resp.query) :
       resp.data = slice(ordered, (Get(resp.query.page) - 1) * Get(resp.query.limit),
                         Get(resp.query.limit))

\* C5: every row GET / returns passes all the filters supplied, and
\* pagination.total is the number of stored todos that pass them, whatever
\* page and limit are (the two controllers and TodoModel.getAll with
\* TodoModel.count)
C5_FiltersAndTotal ==
  (impl \in {"mem", "sql", "model"} /\ resp.op = "list")
  => /\ \A i \in 1..Len(resp.data) : Satisfies(resp.data[i], resp.query)
     /\ resp.total = Cardinality({i \in 1..Len(todos) : Satisfies(todos[i], resp.query)})

\* a page shorter than the filtered set, which is smaller than the store,
\* under both filters
C5_FilteredPageSeen ==
  /\ impl \in {"mem", "sql", "model"}
  /\ resp.op = "list"
  /\ IsSome(resp.query.status) /\ IsSome(resp.query.priority)
  /\ Len(resp.data) >= 1
  /\ Len(resp.data) < resp.total
  /\ resp.total < Len(todos)

\* C6: GET / returns at most 100 rows: the page size in effect is at most 100
\* whatever limit is requested, and 10 when limit is omitted
C6_PageSizeAtMostHundred ==
  (impl \in {"mem", "sql"} /\ resp.op = "list")
  => /\ Len(resp.data) <= DocMaxLimit
     /\ resp.limit <= DocMaxLimit
     /\ (~IsSome(resp.query.limit) => resp.limit = DefaultLimit)

\* t occurs in s, letter case ignored
Contains(s, t) ==
  \E i \in 0..(Len(s) - Len(t)) :
    \A j \in 1..Len(t) : toLowerChar(s[i + j]) = toLowerChar(t[j])

\* the todo's title or description contains t
Matches(todo, t) ==
  \/ Contains(todo.title, t)
  \/ todo.description # None /\ Contains(Get(todo.description), t)

\* C7: GET /search?q=t&page=p&limit=l returns only stored todos whose title
\* or description contains t, letter case ignored, and of them the rows
\* (p-1)*l+1 .. p*l in the order created_at descending, at most l rows
\* (page 1 and limit 10 where omitted)
C7_SearchPageOfMatches ==
  (impl \in {"mem", "sql"} /\ resp.op = "search" /\ resp.status = 200)
  => LET t == Get(resp.query.q)
         p == IF IsSome(resp.query.page) THEN Get(resp.query.page) ELSE DefaultPage
         l == IF IsSome(resp.query.limit) THEN Get(resp.query.limit) ELSE DefaultLimit
     IN /\ \A i \in 1..Len(resp.data) : Matches(resp.data[i], t)
        /\ Len(resp.data) <= l
        /\ l <= DocMaxLimit
        /\ \E ordered \in OrderByCreatedAtDesc(
                            SelectSeq(todos, LAMBDA todo : Matches(todo, t))) :
             resp.data = slice(ordered, (p - 1) * l, l)

---------------------------------------------------------------------------
(* Properties of GET /stats                                                 *)

\* the stored todos whose due_date is in the past and which are not completed
Overdue == {i \in 1..Len(todos) :
              todos[i].due_date # NULL /\ todos[i].due_date < now /\ ~todos[i].completed}

---------------------------------------------------------------------------
(* Properties of POST / and of PUT /:id                                     *)

\* C9: after a POST that answers 201, GET of the returned id yields the
\* submitted title, description, priority and due date exactly (the
\* in-memory controller and router.post)
C9_CreateRoundTrip ==
  (impl \in {"mem", "route"} /\ resp.op = "create" /\ resp.status = 201)
  => LET got == getTodoById(impl, todos, String(resp.id)).resp
     IN /\ got.status = 200
        /\ got.data[1].title = Get(resp.body.title)
        /\ (IsSome(resp.body.description)
              => got.data[1].description = Some(Get(resp.body.description)))
        /\ (IsSome(resp.body.priority)
              => got.data[1].priority = Get(resp.body.priority))
        /\ (IsSome(resp.body.dueDate)
              => got.data[1].due_date = Get(resp.body.dueDate))
        /\ (IsSome(resp.body.due_date)
              => got.data[1].due_date = Get(resp.body.due_date))

\* C10: after PUT /:id with a non-empty body that answers 200, the stored
\* todo is the previous one with exactly the submitted fields replaced
\* (dueDate stored as due_date), id and created_at kept, updated_at
\* refreshed; no other todo changes, and GET /:id returns that record (the
\* in-memory controller, the SQL-backed controller and TodoModel.update)
C10_PartialUpdate ==
  [][\A id \in Ids :
       (/\ impl \in {"mem", "sql", "model"}
        /\ resp'.op = "update" /\ resp'.id = id /\ resp'.status = 200
        /\ resp'.body # NoBody
        /\ Stored(todos, id))
       => LET old == Find(todos, id)
              new == Find(todos', id)
              body == resp'.body
          IN /\ Stored(todos', id)
             /\ new.id = old.id
             /\ new.created_at = old.created_at
             /\ new.title = IF IsSome(body.title) THEN Get(body.title) ELSE old.title
             /\ new.description = IF IsSome(body.description)
                                  THEN Some(Get(body.description)) ELSE old.description
             /\ new.completed = IF IsSome(body.completed) THEN Get(body.completed)
                                                          ELSE old.completed
             /\ new.priority = IF IsSome(body.priority) THEN Get(body.priority)
                                                        ELSE old.priority
             /\ new.due_date = IF IsSome(body.dueDate) THEN Get(body.dueDate)
                                                       ELSE old.due_date
             /\ new.updated_at = now
             /\ Len(todos') = Len(todos)
             /\ \A i \in 1..Len(todos) : todos[i].id # id => todos'[i] = todos[i]
             /\ getTodoById(impl, todos', String(id)).resp.data = << new >>]_vars

---------------------------------------------------------------------------
(* Properties of the validation and of the defaults of POST /               *)

\* a body that the create schema must refuse: no title, an empty title, a
\* title longer than 255 characters, or a priority that is none of the three
RefusedBody(body) ==
  \/ ~IsSome(body.title)
  \/ Len(Get(body.title)) = 0
  \/ Len(Get(body.title)) >= 256
  \/ IsSome(body.priority) /\ Get(body.priority) \notin {"low", "medium", "high"}

\* C11: in the two controllers, POST / with the title omitted, empty or of
\* 256 characters or more, or with a priority outside low, medium, high,
\* answers 400 with error 'Validation error' and creates no todo
C11_InvalidCreateRefused ==
  [][(impl \in {"mem", "sql"} /\ resp'.op = "create" /\ RefusedBody(resp'.body))
       => (/\ resp'.status = 400
           /\ resp'.error = "Validation error"
           /\ todos' = todos
           /\ nextId' = nextId)]_vars

\* a title of 256 characters was refused by a controller that holds a todo
C11_LongTitleRefusedSeen ==
  /\ impl \in {"mem", "sql"}
  /\ resp.op = "create"
  /\ resp.status = 400
  /\ IsSome(resp.body.title)
  /\ Len(Get(resp.body.title)) = 256
  /\ Len(todos) >= 1

\* C12: a todo created by POST / is stored with completed = false, with
\* priority medium when the request omits priority, and with the supplied
\* priority when that is low, medium or high
C12_CreateDefaults ==
  [][(resp'.op = "create" /\ resp'.status = 201)
       => /\ Stored(todos', resp'.id)
          /\ ~Stored(todos, resp'.id)
          /\ Find(todos', resp'.id).completed = FALSE
          /\ (~IsSome(resp'.body.priority)
                => Find(todos', resp'.id).priority = "medium")
          /\ (IsSome(resp'.body.priority)
                /\ Get(resp'.body.priority) \in {"low", "medium", "high"}
                => Find(todos', resp'.id).priority = Get(resp'.body.priority))
          /\ resp'.data = << Find(todos', resp'.id) >>]_vars

\* TodoModel.create has stored a todo whose data named no priority, after
\* one that named low
C12_DefaultPrioritySeen ==
  /\ impl = "model"
  /\ resp.op = "create"
  /\ resp.status = 201
  /\ ~IsSome(resp.body.priority)
  /\ Find(todos, resp.id).priority = "medium"
  /\ \E i \in 1..Len(todos) : todos[i].priority = "low"

---------------------------------------------------------------------------
(* Properties of requests that name an id which is not stored               *)

\* a body PUT /:id accepts: at least one key, each within its rule
ValidUpdateBody(body) ==
  /\ body # NoBody
  /\ ~IsSome(body.due_date)
  /\ (IsSome(body.title) => Len(Get(body.title)) \in 1..255)
  /\ (IsSome(body.description) => Len(Get(body.description)) <= 1000)
  /\ (IsSome(body.priority) => Get(body.priority) \in {"low", "medium", "high"})

\* C13: in the two controllers, GET /:id, PUT /:id with a valid non-empty
\* body, PATCH /:id/complete, PATCH /:id/uncomplete and DELETE /:id of an id
\* that is not stored answer 404 with error 'Todo not found' and a message
\* that names the id, and leave the stored todos unchanged
C13_NotFoundNamesId ==
  [][\A id \in Ids :
       (/\ impl \in {"mem", "sql"}
        /\ resp'.id = id
        /\ ~Stored(todos, id)
        /\ \/ resp'.op \in {"get", "complete", "uncomplete", "delete"}
           \/ resp'.op = "update" /\ ValidUpdateBody(resp'.body))
       => (/\ resp'.status = 404
           /\ resp'.error = "Todo not found"
           /\ resp'.message = "Todo with ID ${id} does not exist"
           /\ resp'.names = String(id)
           /\ todos' = todos)]_vars

\* PUT with a valid body was answered 404 for an id that was handed out
\* and is stored no more, while another todo is stored
C13_UpdateNotFoundSeen ==
  /\ impl \in {"mem", "sql"}
  /\ resp.op = "update"
  /\ ValidUpdateBody(resp.body)
  /\ resp.status = 404
  /\ resp.id < nextId
  /\ Len(todos) >= 1

\* the text contains a character that is no decimal digit
NotAnInteger(text) ==
  \E k \in 1..Len(text) :
    text[k] \notin {"0", "1", "2", "3", "4", "5", "6", "7", "8", "9"}

\* C14: in the two controllers and in router.get('/:id'), GET /:id with an
\* id that is not an integer answers 500 with an error property, and changes
\* no stored todo
C14_InvalidIdAnswers500 ==
  [][(/\ impl \in {"mem", "sql", "route"}
      /\ resp'.op = "get"
      /\ NotAnInteger(resp'.param))
       => (/\ resp'.status = 500
           /\ resp'.error # ""
           /\ todos' = todos)]_vars

\* C15: in every step, no two stored todos share an id; every stored id is
\* below nextId, and nextId never decreases, so that every id handed out
\* before is below nextId; a stored todo keeps its id, and leaves the store
\* only by a DELETE of that id; a create answered 201 stores exactly one more
\* todo, under an id that is at least nextId and hence differs from every id
\* handed out before, those of deleted todos included
C15_IdsUniqueAndFresh ==
  [][/\ \A i, j \in 1..Len(todos') : i # j => todos'[i].id # todos'[j].id
     /\ \A i \in 1..Len(todos') : todos'[i].id < nextId'
     /\ nextId' >= nextId
     /\ \A i \in 1..Len(todos) :
          \/ Stored(todos', todos[i].id)
          \/ resp'.op = "delete" /\ resp'.id = todos[i].id
     /\ IF resp'.op = "create" /\ resp'.status = 201
        THEN /\ resp'.id >= nextId
             /\ resp'.id < nextId'
             /\ ~Stored(todos, resp'.id)
             /\ Stored(todos', resp'.id)
             /\ Len(todos') = Len(todos) + 1
        ELSE /\ Len(todos') <= Len(todos)
             /\ \A i \in 1..Len(todos') : Stored(todos, todos'[i].id)]_vars

\* a create accepted after a todo created earlier was deleted
C15_CreateAfterDeleteSeen ==
  /\ resp.op = "create"
  /\ resp.status = 201
  /\ Len(todos) < resp.id

\* C16: the priority of every stored todo is one of low, medium and high
C16_PriorityInEnum ==
  \A i \in 1..Len(todos) : todos[i].priority \in {"low", "medium", "high"}

\* C17: in every step, every stored todo has an updated_at that is at least
\* its created_at, a stored todo keeps its created_at, and a todo just created
\* has an updated_at equal to its created_at
C17_TimestampsOrdered ==
  [][/\ \A i \in 1..Len(todos') :
          /\ todos'[i].updated_at # NULL
          /\ todos'[i].updated_at >= todos'[i].created_at
     /\ \A i \in 1..Len(todos) :
          Stored(todos', todos[i].id)
            => Find(todos', todos[i].id).created_at = todos[i].created_at
     /\ (resp'.op = "create" /\ resp'.status = 201)
          => Find(todos', resp'.id).updated_at
               = Find(todos', resp'.id).created_at]_vars

---------------------------------------------------------------------------
(* Properties of starting and stopping the server                          *)

\* C18: connectDatabase makes at most maxRetries attempts; it has waited one
\* retryDelay for every attempt but the first, so only between a failed
\* attempt and the next and not after the last; every attempt before the
\* current one failed; it returns true on the first attempt that succeeds and
\* throws exactly when maxRetries attempts failed; once it returned or threw,
\* it makes no attempt and waits no more; and once called it does return or
\* throw, unless the process exits first
C18_ConnectTerminates ==
  /\ [][/\ proc'.attempt <= maxRetries
        /\ proc'.attempt >= 1 => proc'.waited = retryDelay * (proc'.attempt - 1)
        /\ proc'.pc \in {"connect", "query"} => proc'.failures = proc'.attempt - 1
        /\ proc'.pc = "delay" => proc'.failures = proc'.attempt
        /\ proc'.result = "true" => proc'.failures = proc'.attempt - 1
        /\ proc'.result = "thrown" <=> proc'.failures = maxRetries
        /\ proc.result # "none"
             => /\ proc'.result = proc.result
                /\ proc'.attempt = proc.attempt
                /\ proc'.failures = proc.failures
                /\ proc'.waited = proc.waited]_vars
  /\ (proc.pc = "connect") ~> (proc.result # "none" \/ proc.pc = "exited")

\* connectDatabase threw after maxRetries failed attempts, and the process
\* exited
C18_AllAttemptsFailedSeen ==
  /\ proc.result = "thrown"
  /\ proc.failures = maxRetries
  /\ proc.waited = retryDelay * (maxRetries - 1)
  /\ proc.exit = Some(1)

\* C19: the process listens only when connectDatabase has returned true; when
\* connectDatabase threw, the process does not listen, and its exit code is
\* not zero
C19_ListensOnlyConnected ==
  /\ proc.listening => proc.result = "true"
  /\ proc.result = "thrown" => ~proc.listening
  /\ (proc.result = "thrown" /\ proc.pc = "exited") => proc.exit # Some(0)

\* C20: where the handlers of server.js are registered, a process that exited
\* having received only SIGTERM or SIGINT exited with code 0, and a process
\* that exited having received an uncaught exception or an unhandled
\* rejection exited with another code
C20_ExitCodes ==
  (proc.handlers /\ proc.pc = "exited" /\ proc.received # {})
    => /\ proc.received \subseteq Signals => proc.exit = Some(0)
       /\ proc.received \cap Faults # {} => proc.exit # Some(0)

---------------------------------------------------------------------------
(* Properties of the rate limiter                                          *)

\* C21: a request of a client that has no window, or whose window of 15
\* minutes has expired, is passed on and starts a window with count 1 at the
\* time of the request; a request inside the client's window is passed on,
\* and counted, exactly when fewer than 100 requests of the window were passed
\* on, and is answered 429 without next() otherwise, the window staying as it
\* is; no request changes the count or the window of another client
C21_FixedWindowPerClient ==
  [][limiter' # limiter =>
       LET client == limiter'.last.client
           before == limiter.requests[client]
           after == limiter'.requests[client]
           inWindow == before # << >> /\ now <= before[1].resetTime
       IN /\ \A other \in Clients \ {client} :
               limiter'.requests[other] = limiter.requests[other]
          /\ Len(after) = 1
          /\ after[1].count \in 1..100
          /\ IF ~inWindow
             THEN /\ limiter'.last.next
                  /\ after[1] = [count |-> 1, resetTime |-> now + 15 * 60 * 1000]
             ELSE /\ after[1].resetTime = before[1].resetTime
                  /\ limiter'.last.next <=> before[1].count < 100
                  /\ limiter'.last.next => after[1].count = before[1].count + 1
                  /\ ~limiter'.last.next
                       => limiter'.last.status = 429 /\ after = before]_vars

\* the 101st request of a window is answered 429 while another client has a
\* window of its own
C21_TooManyRequestsSeen ==
  /\ limiter.last.client = "a"
  /\ ~limiter.last.next
  /\ limiter.last.status = 429
  /\ limiter.requests["a"][1].count = 100
  /\ limiter.requests["b"] # << >>

---------------------------------------------------------------------------
(* Properties of requests that validation refuses                          *)

\* the keys of request r whose rule r breaks, in the order of the schema
BrokenRules(r) ==
  IF r.op = "search"
  THEN SelectSeq(<<"q", "page", "limit">>, LAMBDA key :
         \/ key = "q" /\ (r.query.q = << >> \/ r.query.q = << << >> >>)
         \/ key = "page" /\ r.query.page # << >> /\ r.query.page[1] < 1
         \/ key = "limit" /\ r.query.limit # << >>
              /\ (r.query.limit[1] < 1 \/ r.query.limit[1] > 100))
  ELSE SelectSeq(<<"title", "description", "priority">>, LAMBDA key :
         \/ key = "title" /\ r.op = "create" /\ r.body.title = << >>
         \/ key = "title" /\ r.body.title # << >>
              /\ (Len(r.body.title[1]) < 1 \/ Len(r.body.title[1]) > 255)
         \/ key = "description" /\ r.body.description # << >>
              /\ Len(r.body.description[1]) > 1000
         \/ key = "priority" /\ r.body.priority # << >>
              /\ r.body.priority[1] \notin {"low", "medium", "high"})

\* what the handler of request r answers when the store is empty
AnswerOfEmptyStore(r) ==
  CASE r.op = "create" -> createTodo(impl, << >>, 1, r.body, now).resp
    [] r.op = "update" -> updateTodo(impl, << >>, r.id, r.body, now).resp
    [] r.op = "search" -> searchTodos(impl, << >>, << >>, r.query).resp

\* C22: in the two controllers a create, update or search request that breaks
\* a rule of its schema is answered 400 'Validation error' with the first
\* broken rule as its message; the answer is the one an empty store gives, so
\* it depends on no stored todo (an invalid PUT is answered 400 whether or
\* not the id is stored), and no stored todo and no id is used up
C22_RefusedBeforeTheStore ==
  [][(/\ impl \in {"mem", "sql"}
      /\ resp'.op \in {"create", "update", "search"}
      /\ BrokenRules(resp') # << >>)
       => (/\ resp'.status = 400
           /\ resp'.error = "Validation error"
           /\ resp'.message = BrokenRules(resp')[1]
           /\ resp' = AnswerOfEmptyStore(resp')
           /\ todos' = todos
           /\ nextId' = nextId)]_vars

\* a PUT of a stored id whose body breaks two rules is refused
C22_TwoRulesBrokenSeen ==
  /\ impl \in {"mem", "sql"}
  /\ resp.op = "update"
  /\ Stored(todos, resp.id)
  /\ Len(BrokenRules(resp)) = 2
  /\ resp.status = 400

---------------------------------------------------------------------------
(* Properties of the statements of a list request                          *)

\* the filters of list request r in the order status, priority, each with the
\* value its placeholder stands for
IntendedFilters(r) ==
  (IF r.query.status # << >> /\ (impl = "model" \/ r.query.status[1] \in {"completed", "pending"})
   THEN << [column |-> "completed", value |-> Bool(r.query.status[1] = "completed")] >>
   ELSE << >>)
  \o
  (IF r.query.priority # << >>
   THEN << [column |-> "priority", value |-> Str(r.query.priority[1])] >>
   ELSE << >>)

\* the offset list request r asks for
IntendedOffset(r) ==
  IF impl = "model"
  THEN (IF r.query.offset # << >> THEN r.query.offset[1] ELSE 0)
  ELSE ((IF r.query.page # << >> THEN r.query.page[1] ELSE 1) - 1)
         * (IF r.query.limit # << >> THEN r.query.limit[1] ELSE 10)

\* C25: the list statement of getAllTodos and of TodoModel.getAll compares
\* the columns of the filters present, status before priority, with the
\* placeholders $1..$n in that order, followed by LIMIT $(n+1) OFFSET $(n+2);
\* its parameter array holds the filter values in that order and then limit
\* and offset, so every placeholder stands for its intended value; the count
\* statement has the same comparisons and the filter values alone
C25_PlaceholdersMatchParams ==
  (impl \in {"sql", "model"} /\ resp.op = "list")
    => LET list == resp.sql[1]
           count == resp.sql[2]
           filters == IntendedFilters(resp)
           n == Len(filters)
       IN /\ Len(list.where) = n
          /\ \A k \in 1..n :
               /\ list.where[k].column = filters[k].column
               /\ list.where[k].placeholder = k
               /\ list.params[list.where[k].placeholder] = filters[k].value
          /\ list.limit = n + 1
          /\ list.offset = n + 2
          /\ Len(list.params) = n + 2
          /\ list.params[list.limit] = Num(resp.limit)
          /\ list.params[list.offset] = Num(IntendedOffset(resp))
          /\ count.where = list.where
          /\ count.params = [k \in 1..n |-> filters[k].value]

\* a list request with both filters: four parameters
C25_BothFiltersSeen ==
  /\ impl \in {"sql", "model"}
  /\ resp.op = "list"
  /\ resp.query.status # << >> /\ resp.query.priority # << >>
  /\ Len(resp.sql[1].params) = 4
  /\ resp.sql[1].params[3] # resp.sql[1].params[4]

---------------------------------------------------------------------------
(* The in-memory controller against the SQL-backed controller               *)

\* C26: the in-memory controller and the SQL-backed controller answer every
\* request alike: whichever of the two handled GET /:id, the other, given the
\* same stored todos and the same :id text, answers with the same status code
\* and the same data
C26_ControllersAnswerAlike ==
  (impl \in {"mem", "sql"} /\ resp.op = "get")
    => LET mem == Mem_getTodoById(todos, resp.param).resp
           sql == Sql_getTodoById(todos, resp.param).resp
       IN /\ mem.status = sql.status
          /\ mem.data = sql.data

---------------------------------------------------------------------------
(* Properties of the pool clients of connectDatabase                       *)

\* C28: every client connectDatabase checked out of the pool is released
\* before its attempt ends, so once connectDatabase has returned or thrown
\* no client is still checked out
C28_NoClientHeld ==
  proc.result # "none" => proc.leaked = 0

---------------------------------------------------------------------------
(* Properties of gracefulShutdown                                          *)

\* C29: once gracefulShutdown has been called, by whatever signal or fault
\* and however often, the process stays shutting down until it exits, and it
\* does exit: with code 0 when the server finished closing first, with code 1
\* when the force timer fired first; once exited it never runs or exits again
C29_ShutdownExitsOnce ==
  /\ [][/\ proc.pc = "closing" => proc'.pc \in {"closing", "exited"}
        /\ (proc.pc = "closing" /\ proc'.pc = "exited")
             => \/ proc'.cause = "close" /\ proc'.exit = Some(0)
                \/ proc'.cause = "timer" /\ proc'.exit = Some(1)
        /\ proc.pc = "exited" => proc' = proc]_vars
  /\ (proc.shutdowns >= 1) ~> (proc.pc = "exited" /\ proc.exit \in {Some(0), Some(1)})

\* gracefulShutdown was called twice and the force timer ended the process
C29_ForcedAfterTwoSignalsSeen ==
  /\ proc.pc = "exited"
  /\ proc.shutdowns >= 2
  /\ proc.cause = "timer"
  /\ proc.exit = Some(1)

---------------------------------------------------------------------------
(* Properties of the deployment tester                                     *)

\* C30: when the run of the deployment tests has ended, every registered
\* test was run: results holds one PASS or FAIL entry per registered test, in
\* registration order, FAIL exactly for the tests that threw; and the exit
\* code is 0 exactly when no test failed, 1 otherwise
C30_EveryTestReported ==
  tester.pc = "exited"
    => /\ tester.index = Len(tester.tests)
       /\ Len(tester.results) = Len(tester.tests)
       /\ \A k \in 1..Len(tester.results) :
            /\ tester.results[k].name = tester.tests[k].name
            /\ tester.results[k].status
                 = IF tester.tests[k].testFunction = "resolves" THEN "PASS" ELSE "FAIL"
       /\ tester.exit
            = Some(IF \A k \in 1..Len(tester.tests) :
                        tester.tests[k].testFunction = "resolves"
                   THEN 0 ELSE 1)

---------------------------------------------------------------------------
(* Properties of requests that overlap                                     *)

\* C23: the statistics that the SQL-backed controller and
\* router.get('/stats/summary') report have total = completed + pending, also
\* when create, update and delete requests are handled while the statistics
\* are read
C23_StatsAddUp ==
  (impl \in {"sql", "route"} /\ resp.op = "stats")
    => resp.stats.total = resp.stats.completed + resp.stats.pending

\* C24: in the SQL-backed controller and in router.put, the UPDATE of a PUT
\* for a stored id is applied to the row as it is when the statement runs,
\* whatever the handler's SELECT saw and whatever other PUT was applied in
\* between: the PUT is answered 200, the fields its body sets take the body's
\* values, every other field of the row and every other row stay as they are.
\* So two overlapping PUTs leave the row that applying them one after the
\* other, in the order of their UPDATE statements, leaves.
C24_UpdatesApplyInTurn ==
  [][(/\ impl \in {"sql", "route"}
      /\ resp'.op = "update"
      /\ Stored(todos, resp'.id))
       => LET old == Find(todos, resp'.id)
              new == Find(todos', resp'.id)
          IN /\ resp'.status = 200
             /\ Stored(todos', resp'.id)
             /\ new.title = IF resp'.body.title # << >> THEN resp'.body.title[1]
                                                        ELSE old.title
             /\ new.completed = IF resp'.body.completed # << >>
                                THEN resp'.body.completed[1] ELSE old.completed
             /\ new.description = old.description
             /\ new.priority = old.priority
             /\ new.due_date = old.due_date
             /\ new.created_at = old.created_at
             /\ Len(todos') = Len(todos)
             /\ \A i \in 1..Len(todos) :
                  todos[i].id # resp'.id => todos'[i] = todos[i]]_vars

\* a PUT that sets completed only has run its UPDATE after another PUT changed
\* the title its SELECT had seen, and the changed title is still stored
C24_OverlappingPutsSeen ==
  /\ impl = "route"
  /\ resp.op = "update"
  /\ resp.status = 200
  /\ resp.body.title = << >>
  /\ resp.seen # << >>
  /\ Stored(todos, resp.id)
  /\ Find(todos, resp.id).title # resp.seen[1].title
  /\ Find(todos, resp.id).completed

\* C27: router.put answers 200 only together with the updated row in data,
\* also when a DELETE of the id is handled between its SELECT and its UPDATE
C27_SuccessCarriesRow ==
  (impl = "route" /\ resp.op = "update" /\ resp.status = 200)
    => (Len(resp.data) = 1 /\ resp.data[1].id = resp.id)

=============================================================================
